---- MODULE Spec2Model ----
(***************************************************************************)
(* The in-enclave stream Unix socket engine of the library OS:             *)
(* StreamUnixSocket, UnixSocketServer (the listening server with its       *)
(* pending FIFO), the UNIX_SOCKET_SERVERS registry and EndPoint (one end   *)
(* of a duplex channel over two ring buffers).                             *)
(*                                                                         *)
(* Every verb of the source is an operator from a world W (all objects on  *)
(* the heap) to a result [w, ret, val]: the world after the call, "OK" or  *)
(* the errno, and the value returned.  The actions apply these operators   *)
(* to the current world on behalf of the user threads.                     *)
(***************************************************************************)
EXTENDS Integers, Sequences, FiniteSets, TLC

(* ------------------------------------------------------------ bounds *)

\* Slots of the heap a StreamUnixSocket can be constructed in.
MaxSlots == 5
\* StreamUnixSocket objects ever constructed in one behaviour of Spec.
MaxSock == 3
\* Capacity of one ring buffer in bytes (DEFAULT_BUF_SIZE scaled down).
BufCap == 2
\* Bytes one end point may write over its life time in Spec.
MaxSent == 1
\* Length of the buffer handed to one read or write in Spec.
MaxIoLen == 1
\* Byte values a caller writes in Spec: 1..MaxByte.
MaxByte == 1

\* calls of socketpair, each by a thread of its own
MaxPairCalls == 1
\* values the socketpair counter takes
MaxPairNum == 2
\* sockets constructed before the user threads of the socketpair runs stop
\* constructing more
PairMaxSock == 2

\* the data runs: sockets constructed, bytes written per end, bytes per call,
\* byte values
DataMaxSock == 2
DataMaxSent == 3
DataMaxIoLen == 2
DataMaxByte == 2

\* UnixSockets constructed in the router runs
MaxRouters == 2

\* the lock runs: threads, and sockets they call verbs on
MaxThreads == 2
MaxLockSocks == 2

Sock == 1..MaxSlots
Router == 1..MaxRouters
PairCalls == 1..MaxPairCalls
SOCK_PATH_PREFIX == "socketpair_"

\* The paths the user threads pass to bind and connect: one ordinary path and
\* the first path socketpair synthesizes.
UserPaths == {"/srv", SOCK_PATH_PREFIX \o ToString(0)}

(* ------------------------------------------------------------ Option<T> *)

None == {}
Some(x) == {x}
IsSome(o) == o # {}
IsNone(o) == o = {}
Unwrap(o) == CHOOSE x \in o : TRUE

(* ------------------------------------------------------------ values *)

SOCK_NONBLOCK == "SOCK_NONBLOCK"
FileFlagSets == {{}, {SOCK_NONBLOCK}}

\* SockAddr: the UnixSocket variant carries its path, the others do not matter here.
UnixSocketAddr(p) == [kind |-> "UnixSocket", path |-> p]
IPv4Addr == [kind |-> "IPv4", path |-> ""]

Min(a, b) == IF a < b THEN a ELSE b

\* Sequences over S of length lo..hi.
SeqsOf(S, lo, hi) == UNION {[1..n -> S] : n \in lo..hi}

IsPrefix(s, t) == Len(s) <= Len(t) /\ SubSeq(t, 1, Len(s)) = s

(* ------------------------------------------------------------ state *)

VARIABLES
    socks,      \* socks[s]: the StreamUnixSocket s and who holds it
    servers,    \* servers[k]: the UnixSocketServer allocated by socket k's listen
    registry,   \* UNIX_SOCKET_SERVERS: a set of <<path, server>> entries
    eps,        \* eps[c][side]: the two EndPoints of duplex channel c
    rings,      \* rings[c][i]: the two ring buffers of duplex channel c
    num,        \* SOCKETPAIR_NUM
    routers,    \* routers[r]: the UnixSocket r
    HOST_UNIX_ADDRS,    \* the host paths of the configuration
    sp,         \* sp[t]: the socketpair call of thread t
    ab,         \* the address a caller is handling, and its buffer
    th          \* th[t]: the locks thread t holds and the steps its verb has left

vars == <<socks, servers, registry, eps, rings, num, routers, HOST_UNIX_ADDRS, sp, ab, th>>

\* The heap as one value.
World == [socks |-> socks, servers |-> servers, registry |-> registry,
          eps |-> eps, rings |-> rings, num |-> num,
          routers |-> routers, HOST_UNIX_ADDRS |-> HOST_UNIX_ADDRS]

\* A slot no StreamUnixSocket has been constructed in yet ("none"), or that held
\* one since dropped ("dropped").  "open": held by a user thread.  "pending": held
\* by a server's pending queue.  "local": held by a socketpair call in progress.
\* queued_at remembers the server whose pending queue the socket was pushed on
\* by connect, and a dropped socket keeps the channel it held when it was
\* dropped (history only, the code keeps no such fields).
NoSock == [st |-> "none", path |-> None, channel |-> None, server |-> None,
           is_blocking |-> TRUE, queued_at |-> None]
NoServer == [exists |-> FALSE, path |-> "", pending_connections |-> <<>>]
NoEnd == [live |-> FALSE, name |-> None, reader |-> 1, writer |-> 1,
          sent |-> <<>>, rcvd |-> <<>>]
\* A UnixSocket: "none" before it is constructed, "open" while a caller holds it.
NoRouter == [st |-> "none", libos_sock |-> None, host_sock |-> None,
             source |-> "Unknown", socket_type |-> "SOCK_STREAM"]
NoRing == [buf |-> <<>>, reader_closed |-> FALSE, writer_closed |-> FALSE,
           reader_nb |-> FALSE, writer_nb |-> FALSE]

\* A thread outside every verb: no step left to take, no lock held.
Threads == 1..MaxThreads
NoThread == [script |-> <<>>, held |-> <<>>]

Ok(w, v) == [w |-> w, ret |-> "OK", val |-> v]
Err(w, e) == [w |-> w, ret |-> e, val |-> 0]

OtherSide(side) == IF side = "a" THEN "b" ELSE "a"
Peer(e) == <<e[1], OtherSide(e[2])>>
End(W, e) == W.eps[e[1]][e[2]]

(* ------------------------------------------------------------ ring buffer *)
(* util::ring_buf is not part of the sources at hand; its halves are        *)
(* modelled from their contract: a bounded FIFO of bytes, a read or write   *)
(* that makes no progress fails with EAGAIN in non-blocking mode and        *)
(* suspends the caller ("BLOCK") in blocking mode, and dropping one half    *)
(* shows as is_peer_closed on the other.                                    *)

reader_can_read(r) == Len(r.buf) > 0
writer_can_write(r) == Len(r.buf) < BufCap
reader_is_peer_closed(r) == r.writer_closed
writer_is_peer_closed(r) == r.reader_closed
reader_bytes_to_read(r) == Len(r.buf)

\* RingBufReader::read_from_buffer with a buffer of n bytes: [ring, ret, val].
read_from_buffer(r, n) ==
    IF reader_can_read(r)
    THEN LET k == Min(n, Len(r.buf))
         IN [ring |-> [r EXCEPT !.buf = SubSeq(r.buf, k + 1, Len(r.buf))],
             ret |-> "OK", val |-> SubSeq(r.buf, 1, k)]
    ELSE IF reader_is_peer_closed(r) THEN [ring |-> r, ret |-> "OK", val |-> <<>>]
    ELSE IF r.reader_nb THEN [ring |-> r, ret |-> "EAGAIN", val |-> <<>>]
    ELSE [ring |-> r, ret |-> "BLOCK", val |-> <<>>]

\* RingBufWriter::write_to_buffer: [ring, ret, val], val the bytes taken.
write_to_buffer(r, data) ==
    IF writer_is_peer_closed(r) THEN [ring |-> r, ret |-> "EPIPE", val |-> <<>>]
    ELSE IF writer_can_write(r)
    THEN LET k == Min(Len(data), BufCap - Len(r.buf))
         IN [ring |-> [r EXCEPT !.buf = r.buf \o SubSeq(data, 1, k)],
             ret |-> "OK", val |-> SubSeq(data, 1, k)]
    ELSE IF r.writer_nb THEN [ring |-> r, ret |-> "EAGAIN", val |-> <<>>]
    ELSE [ring |-> r, ret |-> "BLOCK", val |-> <<>>]

RECURSIVE SumLens(_)
SumLens(lens) == IF lens = <<>> THEN 0 ELSE Head(lens) + SumLens(Tail(lens))
RECURSIVE Flatten(_)
Flatten(bufs) == IF bufs = <<>> THEN <<>> ELSE Head(bufs) \o Flatten(Tail(bufs))

\* The vectored forms fill the caller's buffers one after the other.
read_from_vector(r, lens) == read_from_buffer(r, SumLens(lens))
write_to_vector(r, bufs) == write_to_buffer(r, Flatten(bufs))

\* ring_buffer(capacity): a fresh reader and writer over an empty queue.
ring_buffer == NoRing

(* ------------------------------------------------------------ EndPoint *)

\* Ends wired straight: each end reads the ring it writes.
new_duplex_channel_straight(W, c) ==
    [W EXCEPT
        !.rings[c] = <<ring_buffer, ring_buffer>>,
        !.eps[c] = [a |-> [NoEnd EXCEPT !.live = TRUE, !.reader = 1, !.writer = 1],
                    b |-> [NoEnd EXCEPT !.live = TRUE, !.reader = 2, !.writer = 2]]]

\* EndPoint::new_duplex_channel: the two ends of channel c.  End a reads ring 1
\* and writes ring 2, end b reads ring 2 and writes ring 1.
new_duplex_channel(W, c) ==
    [W EXCEPT
        !.rings[c] = <<ring_buffer, ring_buffer>>,
        !.eps[c] = [a |-> [NoEnd EXCEPT !.live = TRUE, !.reader = 1, !.writer = 2],
                    b |-> [NoEnd EXCEPT !.live = TRUE, !.reader = 2, !.writer = 1]]]

ReaderRing(W, e) == W.rings[e[1]][End(W, e).reader]
WriterRing(W, e) == W.rings[e[1]][End(W, e).writer]

EndPoint_set_name(W, e, name) == [W EXCEPT !.eps[e[1]][e[2]].name = Some(name)]

\* The weak link to the peer upgrades only while the peer is alive.
EndPoint_peer_name(W, e) ==
    IF End(W, Peer(e)).live THEN End(W, Peer(e)).name ELSE None

SetMode(W, e, nb) ==
    [W EXCEPT !.rings[e[1]][End(W, e).reader].reader_nb = nb,
              !.rings[e[1]][End(W, e).writer].writer_nb = nb]
EndPoint_set_non_blocking(W, e) == SetMode(W, e, TRUE)
EndPoint_set_blocking(W, e) == SetMode(W, e, FALSE)

\* EndPoint::read / readv; the bytes read are appended to the end's history.
EndPoint_take(W, e, r) ==
    [w |-> [W EXCEPT !.rings[e[1]][End(W, e).reader] = r.ring,
                     !.eps[e[1]][e[2]].rcvd = @ \o r.val],
     ret |-> r.ret, val |-> r.val]
EndPoint_read(W, e, n) == EndPoint_take(W, e, read_from_buffer(ReaderRing(W, e), n))
EndPoint_readv(W, e, lens) == EndPoint_take(W, e, read_from_vector(ReaderRing(W, e), lens))

\* EndPoint::write / writev; the bytes taken are appended to the end's history.
EndPoint_put(W, e, r) ==
    [w |-> [W EXCEPT !.rings[e[1]][End(W, e).writer] = r.ring,
                     !.eps[e[1]][e[2]].sent = @ \o r.val],
     ret |-> r.ret, val |-> r.val]
EndPoint_write(W, e, data) == EndPoint_put(W, e, write_to_buffer(WriterRing(W, e), data))
EndPoint_writev(W, e, bufs) == EndPoint_put(W, e, write_to_vector(WriterRing(W, e), bufs))

EndPoint_bytes_to_read(W, e) == reader_bytes_to_read(ReaderRing(W, e))

POLLIN == "POLLIN"
POLLOUT == "POLLOUT"
POLLHUP == "POLLHUP"
POLLRDHUP == "POLLRDHUP"
POLLRDNORM == "POLLRDNORM"
POLLWRNORM == "POLLWRNORM"
POLLWRBAND == "POLLWRBAND"

EndPoint_poll(W, e) ==
    LET reader == ReaderRing(W, e)
        writer == WriterRing(W, e)
        readable == reader_can_read(reader) /\ ~reader_is_peer_closed(reader)
        writable == writer_can_write(writer) /\ ~writer_is_peer_closed(writer)
    IN IF readable # writable
       THEN IF reader_can_read(reader)
            THEN {POLLRDHUP, POLLIN, POLLRDNORM}
            ELSE {POLLRDHUP}
       ELSE IF readable
            THEN {POLLIN, POLLOUT, POLLRDNORM, POLLWRNORM}
            ELSE {POLLHUP}

\* The last Arc<EndPoint> of end e goes away: its reader and writer halves are
\* dropped.  Once both ends are gone the channel's memory is released.
DropEndPoint(W, e) ==
    LET c == e[1]
        W1 == [W EXCEPT !.eps[c][e[2]].live = FALSE,
                        !.rings[c][End(W, e).reader].reader_closed = TRUE,
                        !.rings[c][End(W, e).writer].writer_closed = TRUE]
    IN IF End(W, Peer(e)).live THEN W1
       ELSE [W1 EXCEPT !.eps[c] = [a |-> NoEnd, b |-> NoEnd],
                       !.rings[c] = <<NoRing, NoRing>>]


(* ------------------------------------------------------------ UnixAddr *)

MAX_PATH_LEN == 108

\* UnixAddr::new: ENAMETOOLONG for a path of more than MAX_PATH_LEN bytes.
UnixAddr_new_ok(path) == Len(path) <= MAX_PATH_LEN
\* UnixAddr::len: the family tag and the bytes of the path.
UnixAddr_len(path) == Len(path) + 2

(* ------------------------------------------------------------ SockAddr in bytes *)
(* The addresses as the callers' buffers hold them.  A byte is a number in  *)
(* 0..255, a path is the sequence of its bytes, and a u16 lies in memory    *)
(* low byte first.                                                          *)

PF_UNSPEC == 0
PF_LOCAL == 1
PF_INET == 2
PF_INET6 == 10
PF_MAX == 45
\* size_of::<sa_family_t>() and size_of::<ProtocolFamily>()
SizeOfFamily == 2
\* size_of::<IPv4SockAddr>(): sin_family, sin_port, sin_addr, sin_zero
SizeOfIPv4SockAddr == 2 + 2 + 4 + 8
\* size_of::<IPv6SockAddr>(): sin6_family, sin6_port, sin6_flowinfo, sin6_addr, sin6_scope_id
SizeOfIPv6SockAddr == 2 + 2 + 4 + 16 + 4

Zeros(n) == [i \in 1..n |-> 0]
U16Bytes(x) == <<x % 256, x \div 256>>

AOk(v) == [ret |-> "OK", val |-> v]
AErr(e) == [ret |-> e, val |-> None]

\* std::str::from_utf8: the number of bytes of the well-formed character that
\* starts at b[i], or 0 when there is none.
Utf8Width(b, i) ==
    LET c == b[i]
        In(k, lo, hi) == k <= Len(b) /\ b[k] >= lo /\ b[k] <= hi
        Cont(k) == In(k, 128, 191)
    IN CASE c <= 127 -> 1
         [] c >= 194 /\ c <= 223 -> IF Cont(i + 1) THEN 2 ELSE 0
         [] c = 224 -> IF In(i + 1, 160, 191) /\ Cont(i + 2) THEN 3 ELSE 0
         [] (c >= 225 /\ c <= 236) \/ c = 238 \/ c = 239 ->
                IF Cont(i + 1) /\ Cont(i + 2) THEN 3 ELSE 0
         [] c = 237 -> IF In(i + 1, 128, 159) /\ Cont(i + 2) THEN 3 ELSE 0
         [] c = 240 -> IF In(i + 1, 144, 191) /\ Cont(i + 2) /\ Cont(i + 3) THEN 4 ELSE 0
         [] c >= 241 /\ c <= 243 ->
                IF Cont(i + 1) /\ Cont(i + 2) /\ Cont(i + 3) THEN 4 ELSE 0
         [] c = 244 -> IF In(i + 1, 128, 143) /\ Cont(i + 2) /\ Cont(i + 3) THEN 4 ELSE 0
         [] OTHER -> 0
\* The bytes are well-formed UTF-8: a byte that is no continuation byte starts
\* a well-formed character, and a continuation byte lies within the character
\* started by one of the three bytes before it.
Utf8Valid(b) ==
    LET IsCont(k) == b[k] >= 128 /\ b[k] <= 191
    IN \A i \in 1..Len(b) :
           IF IsCont(i)
           THEN \E j \in 1..(i - 1) :
                    i - j <= 3 /\ ~IsCont(j) /\ Utf8Width(b, j) > i - j
           ELSE Utf8Width(b, i) > 0

\* UnixAddr::new
UnixAddr_new(path) ==
    LET path_len == Len(path)
    IN IF path_len > MAX_PATH_LEN THEN AErr("ENAMETOOLONG")
       ELSE AOk([sun_family |-> PF_LOCAL,
                 sun_path |-> path \o Zeros(MAX_PATH_LEN - path_len),
                 path_len |-> path_len])
\* UnixAddr::path
UnixAddr_path(a) == SubSeq(a.sun_path, 1, a.path_len)
\* UnixAddr::len, of the struct
UnixAddr_len_of(a) == a.path_len + SizeOfFamily
\* An equality that tells addresses of different lengths apart.
UnixAddr_eq_len(a, b) ==
    /\ a.sun_family = b.sun_family
    /\ \A i \in 1..MAX_PATH_LEN : a.sun_path[i] = b.sun_path[i]
    /\ a.path_len = b.path_len
\* impl PartialEq for UnixAddr
UnixAddr_eq(a, b) ==
    /\ a.sun_family = b.sun_family
    /\ \A i \in 1..MAX_PATH_LEN : a.sun_path[i] = b.sun_path[i]
\* The bytes of the #[repr(C)] struct UnixAddr.
UnixAddr_bytes(a) == U16Bytes(a.sun_family) \o a.sun_path \o U16Bytes(a.path_len)

\* SockAddr::UnixSocket(a)
UnixSockAddr(a) == [kind |-> "UnixSocket", addr |-> a]
\* #[derive(PartialEq)] for SockAddr: the same variant, and equal addresses.
SockAddr_eq(x, y) == x.kind = y.kind /\ (x.kind = "UnixSocket" => UnixAddr_eq(x.addr, y.addr))
\* The list HOST_UNIX_ADDRS made of the configured host paths.
HostAddrs(host_paths) == {UnixSockAddr(UnixAddr_new(path).val) : path \in host_paths}
\* SockAddr::is_from_host, over the addresses in bytes
SockAddr_is_from_host(hosts, sa) == \E addr \in hosts : SockAddr_eq(addr, sa)
\* SockAddr::as_ptr_and_len, for the UnixSocket variant
as_ptr_and_len(sa) == [ptr |-> UnixAddr_bytes(sa.addr), len |-> UnixAddr_len_of(sa.addr)]
\* SockAddr::copy_to_slice: the buffer afterwards and the length returned.
copy_to_slice(sa, dst) ==
    LET pl == as_ptr_and_len(sa)
        copy_len == Min(pl.len, Len(dst))
    IN [dst |-> SubSeq(pl.ptr, 1, copy_len) \o SubSeq(dst, copy_len + 1, Len(dst)),
        ret |-> pl.len]

\* ProtocolFamily::try_from
ProtocolFamily_try_from(pf) == IF pf > PF_MAX THEN AErr("EINVAL") ELSE AOk(pf)

\* try_from_raw that looks at the family before it looks at the length.
try_from_raw_family_first(sockaddr, addr_len) ==
    LET sa_family == sockaddr[1] + 256 * sockaddr[2]
    IN IF sa_family = PF_UNSPEC THEN AOk(None)
       ELSE IF addr_len <= SizeOfFamily THEN AErr("EINVAL")
       ELSE IF sa_family = PF_LOCAL
       THEN LET path == SubSeq(sockaddr, SizeOfFamily + 1, addr_len)
                a == UnixAddr_new(path)
            IN IF ~Utf8Valid(path) THEN AErr("EINVAL")
               ELSE IF a.ret # "OK" THEN AErr(a.ret)
               ELSE AOk(Some(UnixSockAddr(a.val)))
       ELSE AErr("EINVAL")

\* SockAddr::try_from_raw; val is None for "no address".  The fields of an
\* IPv4 or IPv6 address do not matter here.
try_from_raw(sockaddr, addr_len) ==
    IF addr_len <= SizeOfFamily THEN AErr("EINVAL")
    ELSE LET sa_family == sockaddr[1] + 256 * sockaddr[2]
             pf == ProtocolFamily_try_from(sa_family)
         IN IF pf.ret # "OK" THEN AErr(pf.ret)
            ELSE CASE pf.val = PF_UNSPEC -> AOk(None)
                   [] pf.val = PF_LOCAL ->
                        LET path == SubSeq(sockaddr, SizeOfFamily + 1, addr_len)
                            a == UnixAddr_new(path)
                        IN IF ~Utf8Valid(path) THEN AErr("EINVAL")
                           ELSE IF a.ret # "OK" THEN AErr(a.ret)
                           ELSE AOk(Some(UnixSockAddr(a.val)))
                   [] pf.val = PF_INET ->
                        IF addr_len < SizeOfIPv4SockAddr THEN AErr("EINVAL")
                        ELSE AOk(Some([kind |-> "IPv4", addr |-> 0]))
                   [] pf.val = PF_INET6 ->
                        IF addr_len < SizeOfIPv6SockAddr - 4 THEN AErr("EINVAL")
                        ELSE AOk(Some([kind |-> "IPv6", addr |-> 0]))
                   [] OTHER -> AErr("EINVAL")

\* No address is being handled.
NoAddr == [pc |-> "idle", from |-> "idle", path |-> <<>>, addr |-> None,
           buf |-> <<>>, len |-> 0, res |-> AErr("")]

(* ------------------------------------------------------------ UnixSocketServer *)

\* BTreeMap over <<path, server>> entries.
contains_key(reg, path) == \E en \in reg : en[1] = path
map_get(reg, path) ==
    IF contains_key(reg, path)
    THEN Some((CHOOSE en \in reg : en[1] = path)[2])
    ELSE None
map_insert(reg, path, k) == {en \in reg : en[1] # path} \cup {<<path, k>>}
map_remove(reg, path) == {en \in reg : en[1] # path}

\* A lookup that ignores the path.
get_server_any(W, path) ==
    IF W.registry = {} THEN None ELSE Some((CHOOSE en \in W.registry : TRUE)[2])

get_server(W, path) == map_get(W.registry, path)

\* UnixSocketServer::create_server; k names the Arc it allocates.
create_server(W, path, k) ==
    IF contains_key(W.registry, path)
    THEN Err(W, "EADDRINUSE")
    ELSE Ok([W EXCEPT !.servers[k] = [exists |-> TRUE, path |-> path,
                                      pending_connections |-> <<>>],
                      !.registry = map_insert(W.registry, path, k)], k)

remove_server(W, path) == [W EXCEPT !.registry = map_remove(W.registry, path)]

push_pending(W, k, sock) ==
    [W EXCEPT !.servers[k].pending_connections = Append(@, sock)]

\* A pop from the wrong end of the queue.
pop_pending_back(W, k) ==
    LET queue == W.servers[k].pending_connections
    IN IF queue = <<>>
       THEN [w |-> W, val |-> None]
       ELSE [w |-> [W EXCEPT !.servers[k].pending_connections =
                                 SubSeq(queue, 1, Len(queue) - 1)],
             val |-> Some(queue[Len(queue)])]

\* pop_pending: [w, val], val the socket popped from the front, if any.
pop_pending(W, k) ==
    LET queue == W.servers[k].pending_connections
    IN IF queue = <<>>
       THEN [w |-> W, val |-> None]
       ELSE [w |-> [W EXCEPT !.servers[k].pending_connections = Tail(queue)],
             val |-> Some(Head(queue))]

\* The Arc<UnixSocketServer> k is referenced by its registry entry and by the
\* server field of every socket that has not been dropped.
ServerRefs(W, k) ==
    Cardinality({en \in W.registry : en[2] = k})
    + Cardinality({s \in Sock : W.socks[s].st \in {"open", "pending", "local"}
                                /\ W.socks[s].server = Some(k)})

\* Servers without a reference left are released.
ReleaseServers(W) ==
    [W EXCEPT !.servers = [k \in Sock |->
        IF W.servers[k].exists /\ ServerRefs(W, k) = 0 THEN NoServer ELSE W.servers[k]]]

(* ------------------------------------------------------------ StreamUnixSocket *)

\* The next StreamUnixSocket is constructed in the lowest slot never used.
Constructed(W) == Cardinality({s \in Sock : W.socks[s].st # "none"})
FreeSlots(W) == Cardinality({s \in Sock : W.socks[s].st = "none"})
HasFresh(W) == \E s \in Sock : W.socks[s].st = "none"
Fresh(W) == CHOOSE s \in Sock :
                /\ W.socks[s].st = "none"
                /\ \A t \in Sock : W.socks[t].st = "none" => s <= t

\* StreamUnixSocket::new
Stream_new(W, s, flags) ==
    [W EXCEPT !.socks[s] = [NoSock EXCEPT !.st = "open",
                                          !.is_blocking = ~(SOCK_NONBLOCK \in flags)]]

Stream_path(W, s) == W.socks[s].path
Stream_is_blocking(W, s) == W.socks[s].is_blocking
Stream_is_connected(W, s) == IsSome(W.socks[s].channel)

\* Assigning the channel field: the Arc it held before is dropped.
SetChannel(W, s, ch) ==
    LET old == W.socks[s].channel
        W1 == [W EXCEPT !.socks[s].channel = ch]
    IN IF IsSome(old) THEN DropEndPoint(W1, Unwrap(old)) ELSE W1

\* A bind that does not look at the path already set.
Stream_bind_again(W, s, addr) ==
    IF addr.kind = "UnixSocket"
    THEN LET W1 == [W EXCEPT !.socks[s].path = Some(addr.path)]
             ch == W.socks[s].channel
         IN Ok(IF IsSome(ch) THEN EndPoint_set_name(W1, Unwrap(ch), addr.path) ELSE W1, 0)
    ELSE Err(W, "EINVAL")

Stream_bind(W, s, addr) ==
    IF IsSome(Stream_path(W, s))
    THEN Err(W, "EINVAL")
    ELSE IF addr.kind = "UnixSocket"
    THEN LET W1 == [W EXCEPT !.socks[s].path = Some(addr.path)]
             ch == W.socks[s].channel
         IN Ok(IF IsSome(ch) THEN EndPoint_set_name(W1, Unwrap(ch), addr.path) ELSE W1, 0)
    ELSE Err(W, "EINVAL")

\* A listen that creates a server on every call.
Stream_listen_again(W, s, backlog) ==
    LET path == Stream_path(W, s)
    IN IF IsNone(path) THEN Err(W, "EINVAL")
       ELSE LET r == create_server(W, Unwrap(path), s)
            IN IF r.ret # "OK" THEN Err(r.w, r.ret)
               ELSE Ok([r.w EXCEPT !.socks[s].server = Some(r.val)], 0)

Stream_listen(W, s, backlog) ==
    LET path == Stream_path(W, s)
    IN IF IsNone(path) THEN Err(W, "EINVAL")
       ELSE IF IsNone(W.socks[s].server)
       THEN LET r == create_server(W, Unwrap(path), s)
            IN IF r.ret # "OK" THEN Err(r.w, r.ret)
               ELSE Ok([r.w EXCEPT !.socks[s].server = Some(r.val)], 0)
       ELSE Ok(W, 0)

Stream_set_non_blocking(W, s) ==
    LET W1 == [W EXCEPT !.socks[s].is_blocking = FALSE]
        ch == W.socks[s].channel
    IN IF IsSome(ch) THEN EndPoint_set_non_blocking(W1, Unwrap(ch)) ELSE W1

Stream_set_blocking(W, s) ==
    LET W1 == [W EXCEPT !.socks[s].is_blocking = TRUE]
        ch == W.socks[s].channel
    IN IF IsSome(ch) THEN EndPoint_set_blocking(W1, Unwrap(ch)) ELSE W1

\* An accept that reports the path of the accepted socket.
Stream_accept_named(W, s, flags, addr) ==
    LET path == Stream_path(W, s)
    IN IF IsNone(path) THEN Err(W, "EINVAL")
       ELSE LET server == get_server(W, Unwrap(path))
            IN IF IsNone(server) THEN Err(W, "EINVAL")
               ELSE LET p == pop_pending(W, Unwrap(server))
                    IN IF IsNone(p.val) THEN Err(p.w, "EAGAIN")
                       ELSE LET sock == Unwrap(p.val)
                                W1 == [p.w EXCEPT !.socks[sock].st = "open"]
                                W2 == IF SOCK_NONBLOCK \in flags
                                      THEN Stream_set_non_blocking(W1, sock)
                                      ELSE W1
                                name == W2.socks[sock].path
                                addr_len == IF IsSome(addr) /\ IsSome(name)
                                            THEN UnixAddr_len(Unwrap(name))
                                            ELSE 0
                            IN Ok(W2, [sock |-> sock, addr_len |-> addr_len])

\* StreamUnixSocket::accept; addr is the caller's address buffer, if any.
\* val: the accepted socket and the address length.
Stream_accept(W, s, flags, addr) ==
    LET path == Stream_path(W, s)
    IN IF IsNone(path) THEN Err(W, "EINVAL")
       ELSE LET server == get_server(W, Unwrap(path))
            IN IF IsNone(server) THEN Err(W, "EINVAL")
               ELSE LET p == pop_pending(W, Unwrap(server))
                    IN IF IsNone(p.val) THEN Err(p.w, "EAGAIN")
                       ELSE LET sock == Unwrap(p.val)
                                W1 == [p.w EXCEPT !.socks[sock].st = "open"]
                                W2 == IF SOCK_NONBLOCK \in flags
                                      THEN Stream_set_non_blocking(W1, sock)
                                      ELSE W1
                                ch == W2.socks[s].channel
                                name == IF IsSome(ch)
                                        THEN EndPoint_peer_name(W2, Unwrap(ch))
                                        ELSE None
                                addr_len == IF IsSome(addr) /\ IsSome(name)
                                            THEN UnixAddr_len(Unwrap(name))
                                            ELSE 0
                            IN Ok(W2, [sock |-> sock, addr_len |-> addr_len])

\* A null connect that keeps the channel.
Stream_connect_null_keep(W, s) == Ok(W, 0)

\* StreamUnixSocket::connect with the null (AF_UNSPEC) address.
Stream_connect_null(W, s) == Ok(SetChannel(W, s, None), 0)

\* StreamUnixSocket::connect; addr is None for the null address.
Stream_connect(W, s, addr) ==
    IF IsNone(addr) THEN Stream_connect_null(W, s)
    ELSE IF Unwrap(addr).kind # "UnixSocket" THEN Err(W, "EAFNOSUPPORT")
    ELSE LET path == Unwrap(addr).path
             server == get_server(W, path)
         IN IF IsNone(server) THEN Err(W, "ECONNREFUSED")
            ELSE LET c == Fresh(W)
                     channel_a == <<c, "a">>
                     channel_b == <<c, "b">>
                     W1 == new_duplex_channel(W, c)
                     W2 == EndPoint_set_name(W1, channel_a, path)
                     W3 == IF ~Stream_is_blocking(W, s)
                           THEN EndPoint_set_non_blocking(W2, channel_b)
                           ELSE W2
                     W4 == SetChannel(W3, s, Some(channel_b))
                     server_socket == [st |-> "pending",
                                       path |-> Some(path),
                                       channel |-> Some(channel_a),
                                       server |-> server,
                                       is_blocking |-> TRUE,
                                       queued_at |-> server]
                     W5 == [W4 EXCEPT !.socks[c] = server_socket]
                 IN Ok(push_pending(W5, Unwrap(server), c), 0)

Stream_read(W, s, n) ==
    LET ch == W.socks[s].channel
    IN IF IsNone(ch) THEN Err(W, "ENOTCONN") ELSE EndPoint_read(W, Unwrap(ch), n)

Stream_write(W, s, data) ==
    LET ch == W.socks[s].channel
    IN IF IsNone(ch) THEN Err(W, "ENOTCONN") ELSE EndPoint_write(W, Unwrap(ch), data)

Stream_readv(W, s, lens) ==
    LET ch == W.socks[s].channel
    IN IF IsNone(ch) THEN Err(W, "ENOTCONN") ELSE EndPoint_readv(W, Unwrap(ch), lens)

Stream_writev(W, s, bufs) ==
    LET ch == W.socks[s].channel
    IN IF IsNone(ch) THEN Err(W, "ENOTCONN") ELSE EndPoint_writev(W, Unwrap(ch), bufs)

\* An ioctl(FIONREAD) that counts the bytes in the ring this end writes.
Stream_ioctl_writer(W, s) ==
    LET ch == W.socks[s].channel
    IN IF IsNone(ch) THEN Err(W, "ENOTCONN")
       ELSE Ok(W, reader_bytes_to_read(WriterRing(W, Unwrap(ch))))

\* ioctl(FIONREAD)
Stream_ioctl(W, s) ==
    LET ch == W.socks[s].channel
    IN IF IsNone(ch) THEN Err(W, "ENOTCONN")
       ELSE Ok(W, EndPoint_bytes_to_read(W, Unwrap(ch)))

O_NONBLOCK == "O_NONBLOCK"
Stream_get_status_flags(W, s) == IF Stream_is_blocking(W, s) THEN {} ELSE {O_NONBLOCK}
Stream_set_status_flags(W, s, new_status_flags) ==
    IF O_NONBLOCK \in new_status_flags
    THEN Stream_set_non_blocking(W, s)
    ELSE Stream_set_blocking(W, s)

\* poll that takes every bound socket for a listening one.
Stream_poll_bound(W, s) ==
    LET ch == W.socks[s].channel
    IN IF IsSome(ch) THEN EndPoint_poll(W, Unwrap(ch))
       ELSE IF IsSome(Stream_path(W, s))
       THEN {}
       ELSE {POLLHUP, POLLOUT, POLLWRBAND, POLLWRNORM}

Stream_poll(W, s) ==
    LET ch == W.socks[s].channel
    IN IF IsSome(ch) THEN EndPoint_poll(W, Unwrap(ch))
       ELSE IF IsSome(Stream_path(W, s)) /\ IsSome(W.socks[s].server)
       THEN {}
       ELSE {POLLHUP, POLLOUT, POLLWRBAND, POLLWRNORM}

\* A drop that leaves the registry as it is.
Stream_drop_keep_entry(W, s) ==
    LET W2 == SetChannel(W, s, None)
        W3 == [W2 EXCEPT !.socks[s] = [NoSock EXCEPT !.st = "dropped",
                                                     !.queued_at = W.socks[s].queued_at,
                                                     !.channel = W.socks[s].channel]]
    IN ReleaseServers(W3)

\* impl Drop for StreamUnixSocket, then the fields are dropped.
Stream_drop(W, s) ==
    LET server == W.socks[s].server
        W1 == IF IsSome(server)
              THEN remove_server(W, W.servers[Unwrap(server)].path)
              ELSE W
        W2 == SetChannel(W1, s, None)
        W3 == [W2 EXCEPT !.socks[s] = [NoSock EXCEPT !.st = "dropped",
                                                     !.queued_at = W.socks[s].queued_at,
                                                     !.channel = W.socks[s].channel]]
    IN ReleaseServers(W3)


(* ------------------------------------------------------------ socketpair *)

\* format!("{}{}", SOCK_PATH_PREFIX, sock_path_suffix)
SockPath(n) == SOCK_PATH_PREFIX \o ToString(n)

\* StreamUnixSocket::bind_until_success: [w, val], val the address bound.
RECURSIVE bind_until_success(_, _)
bind_until_success(W, s) ==
    LET sock_path_suffix == W.num
        W1 == [W EXCEPT !.num = @ + 1]
        sock_path == SockPath(sock_path_suffix)
    IN IF ~UnixAddr_new_ok(sock_path) THEN bind_until_success(W1, s)
       ELSE LET r == Stream_bind(W1, s, UnixSocketAddr(sock_path))
            IN IF r.ret = "OK"
               THEN [w |-> r.w, val |-> UnixSocketAddr(sock_path)]
               ELSE bind_until_success(r.w, s)

\* A socket held by the running socketpair call, not by a user thread.
Local(W, s) == [W EXCEPT !.socks[s].st = "local"]
Release(W, s) == [W EXCEPT !.socks[s].st = "open"]

\* The locals of one socketpair call and its position.
SpIdle == [pc |-> "idle", flags |-> {}, listen_socket |-> 0, bound_path |-> "",
           client_socket |-> 0, accepted_socket |-> 0, ret |-> "OK"]

\* StreamUnixSocket::socketpair run without another thread in between:
\* val is the pair (client_socket, accepted_socket).
Stream_socketpair(W, flags) ==
    LET listen_socket == Fresh(W)
        W1 == Stream_new(W, listen_socket, flags)
        b == bind_until_success(W1, listen_socket)
        l == Stream_listen(b.w, listen_socket, 1)
    IN IF l.ret # "OK" THEN Err(Stream_drop(l.w, listen_socket), l.ret)
       ELSE LET client_socket == Fresh(l.w)
                W2 == Stream_new(l.w, client_socket, flags)
                c == Stream_connect(W2, client_socket, Some(b.val))
            IN IF c.ret # "OK"
               THEN Err(Stream_drop(Stream_drop(c.w, client_socket), listen_socket), c.ret)
               ELSE LET a == Stream_accept(c.w, listen_socket, flags, None)
                    IN IF a.ret # "OK"
                       THEN Err(Stream_drop(Stream_drop(a.w, client_socket),
                                            listen_socket), a.ret)
                       ELSE Ok(Stream_drop(a.w, listen_socket),
                               <<client_socket, a.val.sock>>)

\* StreamUnixSocket::sendto / recvfrom: the flags and the address are ignored.
Stream_sendto(W, s, data) == Stream_write(W, s, data)
Stream_recvfrom(W, s, n, addr) ==
    LET r == Stream_read(W, s, n)
        ch == r.w.socks[s].channel
        name == IF IsSome(ch) THEN EndPoint_peer_name(r.w, Unwrap(ch)) ELSE None
    IN IF r.ret # "OK" THEN r
       ELSE IF IsSome(addr) /\ IsSome(name) /\ ~UnixAddr_new_ok(Unwrap(name))
       THEN Err(r.w, "ENAMETOOLONG")
       ELSE Ok(r.w, [data |-> r.val,
                     addr_len |-> IF IsSome(addr) /\ IsSome(name)
                                  THEN UnixAddr_len(Unwrap(name)) ELSE 0])

(* ------------------------------------------------------------ UnixSocket *)
(* The router over an in-enclave StreamUnixSocket and a host SocketFile.    *)
(* The host is outside the program: what an OCall returns is an input h of  *)
(* the verb that makes it.  A verb's result lists the OCalls it made; ret    *)
(* is "PANIC" when the verb unwraps an underlying socket that is missing.    *)

SOCK_STREAM == "SOCK_STREAM"
SOCK_DGRAM == "SOCK_DGRAM"
SocketFile == "SocketFile"
\* What the host returns from an OCall: success, or an errno.  The errno stands
\* for those a Linux host gives to the calls made here; socket(2) on AF_UNIX
\* with protocol 0 or PF_LOCAL does not give EPROTONOSUPPORT.
HostRets == {"OK", "EACCES"}

ROk(w, v, oc) == [w |-> w, ret |-> "OK", val |-> v, ocalls |-> oc]
RErr(w, e, oc) == [w |-> w, ret |-> e, val |-> 0, ocalls |-> oc]
Panic(w, oc) == [w |-> w, ret |-> "PANIC", val |-> 0, ocalls |-> oc]
\* The result of a call on the in-enclave socket, as the router's result.
Lift(x, oc) == [w |-> x.w, ret |-> x.ret, val |-> x.val, ocalls |-> oc]

HasFreshRouter(W) == \E r \in Router : W.routers[r].st = "none"
FreshRouter(W) == CHOOSE r \in Router :
                      /\ W.routers[r].st = "none"
                      /\ \A q \in Router : W.routers[q].st = "none" => r <= q

\* SockAddr::is_from_host
is_from_host(W, addr) == addr.kind = "UnixSocket" /\ addr.path \in W.HOST_UNIX_ADDRS

\* UnixSocket::new without its last test, that one of the two sockets exists.
Router_new_unchecked(W, socket_type, flags, protocol, h) ==
    LET stream == socket_type = SOCK_STREAM
        host == W.HOST_UNIX_ADDRS # {}
        s == Fresh(W)
        r == FreshRouter(W)
        W1 == IF stream THEN Stream_new(W, s, flags) ELSE W
    IN IF protocol # 0 /\ protocol # PF_LOCAL THEN RErr(W, "EPROTONOSUPPORT", <<>>)
       ELSE IF host /\ h # "OK" THEN RErr(W, h, <<"socket">>)
       ELSE ROk([W1 EXCEPT !.routers[r] =
                    [st |-> "open",
                     libos_sock |-> IF stream THEN Some(s) ELSE None,
                     host_sock |-> IF host THEN Some(SocketFile) ELSE None,
                     source |-> "Unknown",
                     socket_type |-> socket_type]],
                r, IF host THEN <<"socket">> ELSE <<>>)

\* UnixSocket::new; a StreamUnixSocket constructed before SocketFile::new fails
\* is dropped unused.
Router_new(W, socket_type, flags, protocol, h) ==
    LET stream == socket_type = SOCK_STREAM
        host == W.HOST_UNIX_ADDRS # {}
        s == Fresh(W)
        r == FreshRouter(W)
        W1 == IF stream THEN Stream_new(W, s, flags) ELSE W
    IN IF protocol # 0 /\ protocol # PF_LOCAL THEN RErr(W, "EPROTONOSUPPORT", <<>>)
       ELSE IF host /\ h # "OK" THEN RErr(W, h, <<"socket">>)
       ELSE IF ~stream /\ ~host THEN RErr(W, "EPROTONOSUPPORT", <<>>)
       ELSE ROk([W1 EXCEPT !.routers[r] =
                    [st |-> "open",
                     libos_sock |-> IF stream THEN Some(s) ELSE None,
                     host_sock |-> IF host THEN Some(SocketFile) ELSE None,
                     source |-> "Unknown",
                     socket_type |-> socket_type]],
                r, IF host THEN <<"socket">> ELSE <<>>)

\* UnixSocket::bind
Router_bind(W, r, addr, h) ==
    LET R == W.routers[r]
    IN IF is_from_host(W, addr)
       THEN IF IsNone(R.host_sock) THEN Panic(W, <<>>)
            ELSE IF h # "OK" THEN RErr(W, h, <<"bind">>)
            ELSE ROk([W EXCEPT !.routers[r].source = "Host"], 0, <<"bind">>)
       ELSE IF IsNone(R.libos_sock) THEN Panic(W, <<>>)
            ELSE LET x == Stream_bind(W, Unwrap(R.libos_sock), addr)
                 IN IF x.ret # "OK" THEN Lift(x, <<>>)
                    ELSE ROk([x.w EXCEPT !.routers[r].source = "Libos"], 0, <<>>)

\* UnixSocket::listen
Router_listen(W, r, backlog, h) ==
    LET R == W.routers[r]
    IN CASE R.source = "Unknown" -> RErr(W, "EINVAL", <<>>)
         [] R.source = "Libos" ->
                IF IsNone(R.libos_sock) THEN Panic(W, <<>>)
                ELSE Lift(Stream_listen(W, Unwrap(R.libos_sock), backlog), <<>>)
         [] R.source = "Host" ->
                IF IsNone(R.host_sock) THEN Panic(W, <<>>)
                ELSE IF h # "OK" THEN RErr(W, h, <<"listen">>)
                ELSE ROk(W, 0, <<"listen">>)

\* UnixSocket::accept; val: the UnixSocket accepted and the address length.
Router_accept(W, r, flags, addr, h) ==
    LET R == W.routers[r]
        q == FreshRouter(W)
    IN CASE R.source = "Unknown" -> RErr(W, "EINVAL", <<>>)
         [] R.source = "Libos" ->
                IF IsNone(R.libos_sock) THEN Panic(W, <<>>)
                ELSE LET x == Stream_accept(W, Unwrap(R.libos_sock), flags, addr)
                     IN IF x.ret # "OK" THEN Lift(x, <<>>)
                        ELSE IF h # "OK"
                        THEN RErr(Stream_drop(x.w, x.val.sock), h, <<"socket">>)
                        ELSE ROk([x.w EXCEPT !.routers[q] =
                                     [st |-> "open",
                                      libos_sock |-> Some(x.val.sock),
                                      host_sock |-> Some(SocketFile),
                                      source |-> "Libos",
                                      socket_type |-> R.socket_type]],
                                 [sock |-> q, addr_len |-> x.val.addr_len],
                                 <<"socket">>)
         [] R.source = "Host" ->
                IF IsNone(R.host_sock) THEN Panic(W, <<>>)
                ELSE IF h # "OK" THEN RErr(W, h, <<"accept4">>)
                ELSE LET stream == R.socket_type = SOCK_STREAM
                         s == Fresh(W)
                         W1 == IF stream THEN Stream_new(W, s, flags) ELSE W
                     IN ROk([W1 EXCEPT !.routers[q] =
                                [st |-> "open",
                                 libos_sock |-> IF stream THEN Some(s) ELSE None,
                                 host_sock |-> Some(SocketFile),
                                 source |-> "Host",
                                 socket_type |-> R.socket_type]],
                            [sock |-> q, addr_len |-> IF IsSome(addr) THEN Unwrap(addr) ELSE 0],
                            <<"accept4">>)

\* UnixSocket::connect; addr is None for the null address.
Router_connect(W, r, addr, h) ==
    LET R == W.routers[r]
        host_call == IF IsNone(addr) THEN W.HOST_UNIX_ADDRS # {}
                     ELSE is_from_host(W, Unwrap(addr))
        libos_call == IF IsNone(addr) THEN IsSome(R.libos_sock) ELSE ~host_call
        oc == IF host_call THEN <<"connect">> ELSE <<>>
    IN IF host_call /\ IsNone(R.host_sock) THEN Panic(W, <<>>)
       ELSE IF host_call /\ h # "OK" THEN RErr(W, h, oc)
       ELSE IF ~libos_call THEN ROk(W, 0, oc)
       ELSE IF IsNone(R.libos_sock) THEN Panic(W, oc)
       ELSE Lift(Stream_connect(W, Unwrap(R.libos_sock), addr), oc)

\* The fall back of the data verbs: the in-enclave result x (None without an
\* in-enclave socket) is the verb's result when it is a success, or when the
\* host path list is empty; otherwise the host socket is called, and what it
\* returns (v on success) is the result.  A caller suspended in the in-enclave
\* call ("BLOCK") has not returned.
FallBack(W, r, x, call, v, h) ==
    LET R == W.routers[r]
    IN IF IsSome(x) /\ Unwrap(x).ret \in {"OK", "BLOCK"} THEN Lift(Unwrap(x), <<>>)
       ELSE IF W.HOST_UNIX_ADDRS = {}
       THEN IF IsNone(x) THEN Panic(W, <<>>) ELSE Lift(Unwrap(x), <<>>)
       ELSE IF IsNone(R.host_sock) THEN Panic(W, <<>>)
       ELSE IF h # "OK" THEN RErr(W, h, <<call>>)
       ELSE ROk(W, v, <<call>>)

\* A write's result as the number of bytes taken.
Count(x) == [x EXCEPT !.val = IF x.ret = "OK" THEN Len(x.val) ELSE 0]

\* UnixSocket::sendto; val: the number of bytes taken.
Router_sendto(W, r, data, addr, h) ==
    LET R == W.routers[r]
    IN IF IsNone(addr)
       THEN FallBack(W, r,
                     IF IsSome(R.libos_sock)
                     THEN Some(Count(Stream_sendto(W, Unwrap(R.libos_sock), data)))
                     ELSE None,
                     "sendto", Len(data), h)
       ELSE IF is_from_host(W, Unwrap(addr))
       THEN IF IsNone(R.host_sock) THEN Panic(W, <<>>)
            ELSE IF h # "OK" THEN RErr(W, h, <<"sendto">>)
            ELSE ROk(W, Len(data), <<"sendto">>)
       ELSE IF IsNone(R.libos_sock) THEN Panic(W, <<>>)
            ELSE Lift(Count(Stream_sendto(W, Unwrap(R.libos_sock), data)), <<>>)

\* UnixSocket::recvfrom; val: the bytes read and the address length.  The bytes
\* a host socket delivers are not the program's: they show as no bytes.
Router_recvfrom(W, r, n, addr, h) ==
    LET R == W.routers[r]
    IN FallBack(W, r,
                IF IsSome(R.libos_sock)
                THEN Some(Stream_recvfrom(W, Unwrap(R.libos_sock), n, addr))
                ELSE None,
                "recvfrom", [data |-> <<>>, addr_len |-> 0], h)

\* UnixSocket::read / write
Router_read(W, r, n, h) ==
    LET x == Router_recvfrom(W, r, n, None, h)
    IN IF x.ret = "OK" THEN [x EXCEPT !.val = x.val.data] ELSE x
Router_write(W, r, data, h) == Router_sendto(W, r, data, None, h)

\* UnixSocket::readv / writev
Router_readv(W, r, lens, h) ==
    LET R == W.routers[r]
    IN FallBack(W, r,
                IF IsSome(R.libos_sock)
                THEN Some(Stream_readv(W, Unwrap(R.libos_sock), lens))
                ELSE None,
                "readv", <<>>, h)
Router_writev(W, r, bufs, h) ==
    LET R == W.routers[r]
    IN FallBack(W, r,
                IF IsSome(R.libos_sock)
                THEN Some(Count(Stream_writev(W, Unwrap(R.libos_sock), bufs)))
                ELSE None,
                "writev", Len(Flatten(bufs)), h)

\* The shape shared by ioctl, get_status_flags and set_status_flags: x is the
\* in-enclave call's result (None without an in-enclave socket), call the
\* OCall the host socket's verb makes and v what it gives on success.
ByTag(W, r, x, call, v, h) ==
    LET R == W.routers[r]
        libos == IF IsNone(x) THEN Panic(W, <<>>) ELSE Lift(Unwrap(x), <<>>)
        W1 == IF IsSome(x) THEN Unwrap(x).w ELSE W
        host == IF IsNone(R.host_sock) THEN Panic(W1, <<>>)
                ELSE IF h # "OK" THEN RErr(W1, h, <<call>>)
                ELSE ROk(W1, v, <<call>>)
    IN CASE R.source = "Unknown" ->
                IF W.HOST_UNIX_ADDRS # {}
                THEN IF IsSome(x) /\ Unwrap(x).ret # "OK" THEN libos ELSE host
                ELSE libos
         [] R.source = "Libos" -> libos
         [] R.source = "Host" ->
                IF IsNone(R.host_sock) THEN Panic(W, <<>>)
                ELSE IF h # "OK" THEN RErr(W, h, <<call>>)
                ELSE ROk(W, v, <<call>>)

\* UnixSocket::ioctl, for the command FIONREAD
Router_ioctl(W, r, h) ==
    ByTag(W, r,
          IF IsSome(W.routers[r].libos_sock)
          THEN Some(Stream_ioctl(W, Unwrap(W.routers[r].libos_sock)))
          ELSE None,
          "ioctl", 0, h)

\* UnixSocket::get_status_flags; the flags of a host socket are the host's.
Router_get_status_flags(W, r, h) ==
    ByTag(W, r,
          IF IsSome(W.routers[r].libos_sock)
          THEN Some(Ok(W, Stream_get_status_flags(W, Unwrap(W.routers[r].libos_sock))))
          ELSE None,
          "fcntl", {}, h)

\* UnixSocket::set_status_flags
Router_set_status_flags(W, r, new_status_flags, h) ==
    ByTag(W, r,
          IF IsSome(W.routers[r].libos_sock)
          THEN Some(Ok(Stream_set_status_flags(W, Unwrap(W.routers[r].libos_sock),
                                               new_status_flags), 0))
          ELSE None,
          "fcntl", 0, h)

\* UnixSocket::poll; SocketFile has no poll of its own: what the poll of a host
\* socket gives is outside these sources, and shows as no flags.
Router_poll(W, r) ==
    LET R == W.routers[r]
        libos_call == CASE R.source = "Unknown" -> IsSome(R.libos_sock)
                        [] R.source = "Libos" -> TRUE
                        [] R.source = "Host" -> FALSE
    IN IF libos_call
       THEN IF IsNone(R.libos_sock) THEN Panic(W, <<>>)
            ELSE ROk(W, Stream_poll(W, Unwrap(R.libos_sock)), <<>>)
       ELSE IF IsNone(R.host_sock) THEN Panic(W, <<>>)
            ELSE ROk(W, {}, <<>>)

\* UnixSocket::socketpair; val: the pair of UnixSockets.
Router_socketpair(W, socket_type, flags) ==
    IF socket_type # SOCK_STREAM THEN RErr(W, "EOPNOTSUPP", <<>>)
    ELSE LET x == Stream_socketpair(W, flags)
         IN IF x.ret # "OK" THEN Lift(x, <<>>)
            ELSE LET half(s) == [st |-> "open", libos_sock |-> Some(s),
                                 host_sock |-> None, source |-> "Libos",
                                 socket_type |-> socket_type]
                     a == FreshRouter(x.w)
                     W1 == [x.w EXCEPT !.routers[a] = half(x.val[1])]
                     b == FreshRouter(W1)
                 IN ROk([W1 EXCEPT !.routers[b] = half(x.val[2])], <<a, b>>, <<>>)

\* The UnixSocket goes away: its fields are dropped, the in-enclave socket
\* first; SocketFile's drop asserts that the close OCall returned 0.
Router_drop(W, r, h) ==
    LET R == W.routers[r]
        W1 == IF IsSome(R.libos_sock) THEN Stream_drop(W, Unwrap(R.libos_sock)) ELSE W
        W2 == [W1 EXCEPT !.routers[r] = [NoRouter EXCEPT !.st = "dropped"]]
    IN IF IsNone(R.host_sock) THEN ROk(W2, 0, <<>>)
       ELSE IF h # "OK" THEN Panic(W2, <<"close">>)
       ELSE ROk(W2, 0, <<"close">>)

(* ------------------------------------------------------------ actions *)
(* The user threads call the verbs on the sockets they hold.  The          *)
(* parameters of an action are the inputs its callers draw from and the    *)
(* bound on the objects constructed.                                       *)

Init ==
    /\ socks = [s \in Sock |-> NoSock]
    /\ servers = [k \in Sock |-> NoServer]
    /\ registry = {}
    /\ eps = [c \in Sock |-> [a |-> NoEnd, b |-> NoEnd]]
    /\ rings = [c \in Sock |-> <<NoRing, NoRing>>]
    /\ num = 0
    /\ routers = [r \in Router |-> NoRouter]
    /\ HOST_UNIX_ADDRS = {}
    /\ sp = [t \in PairCalls |-> SpIdle]
    /\ ab = NoAddr
    /\ th = [t \in Threads |-> NoThread]

Commit(W) ==
    /\ socks' = W.socks
    /\ servers' = W.servers
    /\ registry' = W.registry
    /\ eps' = W.eps
    /\ rings' = W.rings
    /\ num' = W.num
    /\ routers' = W.routers
    /\ HOST_UNIX_ADDRS' = W.HOST_UNIX_ADDRS
    /\ ab' = ab
    /\ th' = th

Open(s) == socks[s].st = "open"

UnixAddrs(paths) == {UnixSocketAddr(p) : p \in paths}
Backlogs == {0, 1}
AddrBufs == {None, Some(16)}
IoBufs(maxbyte, maxlen) == SeqsOf(1..maxbyte, 1, maxlen)
\* Vectors of one or two buffers.
IoVecs(maxbyte, maxlen) ==
    LET B == IoBufs(maxbyte, maxlen)
    IN {<<b>> : b \in B} \cup {<<b1, b2>> : b1 \in B, b2 \in B}
LenVecs(maxlen) ==
    {<<n>> : n \in 1..maxlen} \cup {<<n1, n2>> : n1 \in 1..maxlen, n2 \in 1..maxlen}

\* A write is issued only while the end may still send (the bound on a history).
MaySend(s, n, maxsent) ==
    LET ch == socks[s].channel
    IN IsSome(ch) => Len(End(World, Unwrap(ch)).sent) + n <= maxsent

New(lim, flagsets) ==
    \E flags \in flagsets :
        /\ Constructed(World) < lim
        /\ Commit(Stream_new(World, Fresh(World), flags))
        /\ UNCHANGED sp

Bind(addrs) ==
    \E s \in Sock, addr \in addrs :
        /\ Open(s)
        /\ LET r == Stream_bind(World, s, addr)
           IN Commit(r.w)
        /\ UNCHANGED sp

Listen ==
    \E s \in Sock, backlog \in Backlogs :
        /\ Open(s)
        /\ LET r == Stream_listen(World, s, backlog)
           IN Commit(r.w)
        /\ UNCHANGED sp

Accept(flagsets) ==
    \E s \in Sock, flags \in flagsets, addr \in AddrBufs :
        /\ Open(s)
        /\ LET r == Stream_accept(World, s, flags, addr)
           IN Commit(r.w)
        /\ UNCHANGED sp

\* A connect that succeeds constructs the server side socket in a fresh slot.
Connect(lim, addrs) ==
    \E s \in Sock, addr \in addrs :
        /\ Open(s)
        /\ Constructed(World) < lim
        /\ LET r == Stream_connect(World, s, Some(addr))
           IN Commit(r.w)
        /\ UNCHANGED sp

\* connect with the null address
Disconnect ==
    \E s \in Sock :
        /\ Open(s)
        /\ LET r == Stream_connect(World, s, None)
           IN Commit(r.w)
        /\ UNCHANGED sp

Read(maxlen) ==
    \E s \in Sock, n \in 1..maxlen :
        /\ Open(s)
        /\ LET r == Stream_read(World, s, n)
           IN r.ret # "BLOCK" /\ Commit(r.w)
        /\ UNCHANGED sp

Write(maxbyte, maxlen, maxsent) ==
    \E s \in Sock, data \in IoBufs(maxbyte, maxlen) :
        /\ Open(s)
        /\ MaySend(s, Len(data), maxsent)
        /\ LET r == Stream_write(World, s, data)
           IN r.ret # "BLOCK" /\ Commit(r.w)
        /\ UNCHANGED sp

Readv(maxlen) ==
    \E s \in Sock, lens \in LenVecs(maxlen) :
        /\ Open(s)
        /\ LET r == Stream_readv(World, s, lens)
           IN r.ret # "BLOCK" /\ Commit(r.w)
        /\ UNCHANGED sp

Writev(maxbyte, maxlen, maxsent) ==
    \E s \in Sock, bufs \in IoVecs(maxbyte, maxlen) :
        /\ Open(s)
        /\ MaySend(s, Len(Flatten(bufs)), maxsent)
        /\ LET r == Stream_writev(World, s, bufs)
           IN r.ret # "BLOCK" /\ Commit(r.w)
        /\ UNCHANGED sp

SetStatusFlags ==
    \E s \in Sock, new_status_flags \in {{}, {O_NONBLOCK}} :
        /\ Open(s)
        /\ Commit(Stream_set_status_flags(World, s, new_status_flags))
        /\ UNCHANGED sp

Drop ==
    \E s \in Sock :
        /\ Open(s)
        /\ Commit(Stream_drop(World, s))
        /\ UNCHANGED sp

Next ==
    \/ New(MaxSock, FileFlagSets)
    \/ Bind(UnixAddrs(UserPaths) \cup {IPv4Addr})
    \/ Listen
    \/ Accept(FileFlagSets)
    \/ Connect(MaxSock, UnixAddrs(UserPaths) \cup {IPv4Addr})
    \/ Disconnect
    \/ Read(MaxIoLen)
    \/ Write(MaxByte, MaxIoLen, MaxSent)
    \/ Readv(MaxIoLen)
    \/ Writev(MaxByte, MaxIoLen, MaxSent)
    \/ SetStatusFlags
    \/ Drop

Spec == Init /\ [][Next]_vars

(* ------------------------------------------------------------ data runs *)
(* One listening path, and longer transfers of distinguishable bytes.        *)

DataPaths == {"/srv"}

DataNext ==
    \/ New(DataMaxSock, FileFlagSets)
    \/ Bind(UnixAddrs(DataPaths))
    \/ Listen
    \/ Accept({{}})
    \/ Connect(DataMaxSock, UnixAddrs(DataPaths))
    \/ Disconnect
    \/ Read(DataMaxIoLen)
    \/ Write(DataMaxByte, DataMaxIoLen, DataMaxSent)
    \/ Readv(DataMaxIoLen)
    \/ Writev(DataMaxByte, DataMaxIoLen, DataMaxSent)
    \/ SetStatusFlags
    \/ Drop

DataSpec == Init /\ [][DataNext]_vars

(* ------------------------------------------------------------ router runs *)
(* The callers hold UnixSockets and call their verbs; the configuration is  *)
(* either without host paths or with one.                                   *)

HostPath == "/host"
HostPathSets == {{}, {HostPath}}
RouterPaths == {"/srv", HostPath}
SocketTypes == {SOCK_STREAM, SOCK_DGRAM}
Protocols == {0, PF_LOCAL, 2}

RouterInit ==
    /\ socks = [s \in Sock |-> NoSock]
    /\ servers = [k \in Sock |-> NoServer]
    /\ registry = {}
    /\ eps = [c \in Sock |-> [a |-> NoEnd, b |-> NoEnd]]
    /\ rings = [c \in Sock |-> <<NoRing, NoRing>>]
    /\ num = 0
    /\ routers = [r \in Router |-> NoRouter]
    /\ HOST_UNIX_ADDRS \in HostPathSets
    /\ sp = [t \in PairCalls |-> SpIdle]
    /\ ab = NoAddr
    /\ th = [t \in Threads |-> NoThread]

ROpen(r) == routers[r].st = "open"

\* A data verb is issued only while the in-enclave end may still send.
RMaySend(r, n) ==
    IsSome(routers[r].libos_sock) => MaySend(Unwrap(routers[r].libos_sock), n, MaxSent)

\* A verb that returns commits its effects; one that suspends its caller does
\* not return.
Returns(x) == x.ret # "BLOCK" /\ Commit(x.w) /\ UNCHANGED sp

RNew ==
    \E socket_type \in SocketTypes, flags \in FileFlagSets,
       protocol \in Protocols, h \in HostRets :
        /\ HasFreshRouter(World) /\ HasFresh(World)
        /\ Returns(Router_new(World, socket_type, flags, protocol, h))

RBind ==
    \E r \in Router, addr \in UnixAddrs(RouterPaths) \cup {IPv4Addr}, h \in HostRets :
        ROpen(r) /\ Returns(Router_bind(World, r, addr, h))

RListen ==
    \E r \in Router, backlog \in Backlogs, h \in HostRets :
        ROpen(r) /\ Returns(Router_listen(World, r, backlog, h))

RAccept ==
    \E r \in Router, flags \in FileFlagSets, addr \in AddrBufs, h \in HostRets :
        /\ ROpen(r)
        /\ HasFreshRouter(World) /\ HasFresh(World)
        /\ Returns(Router_accept(World, r, flags, addr, h))

RConnect ==
    \E r \in Router, addr \in UnixAddrs(RouterPaths), h \in HostRets :
        /\ ROpen(r)
        /\ Constructed(World) < MaxSock
        /\ Returns(Router_connect(World, r, Some(addr), h))

RDisconnect ==
    \E r \in Router, h \in HostRets :
        ROpen(r) /\ Returns(Router_connect(World, r, None, h))

RRead ==
    \E r \in Router, n \in 1..MaxIoLen, h \in HostRets :
        ROpen(r) /\ Returns(Router_read(World, r, n, h))

RWrite ==
    \E r \in Router, data \in IoBufs(MaxByte, MaxIoLen), h \in HostRets :
        ROpen(r) /\ RMaySend(r, Len(data)) /\ Returns(Router_write(World, r, data, h))

RReadv ==
    \E r \in Router, lens \in LenVecs(MaxIoLen), h \in HostRets :
        ROpen(r) /\ Returns(Router_readv(World, r, lens, h))

RWritev ==
    \E r \in Router, bufs \in IoVecs(MaxByte, MaxIoLen), h \in HostRets :
        /\ ROpen(r) /\ RMaySend(r, Len(Flatten(bufs)))
        /\ Returns(Router_writev(World, r, bufs, h))

RSetStatusFlags ==
    \E r \in Router, new_status_flags \in {{}, {O_NONBLOCK}}, h \in HostRets :
        ROpen(r) /\ Returns(Router_set_status_flags(World, r, new_status_flags, h))

RSocketpair ==
    \E socket_type \in SocketTypes, flags \in FileFlagSets :
        /\ Cardinality({r \in Router : routers[r].st = "none"}) >= 2
        /\ FreeSlots(World) >= 3
        /\ num < MaxPairNum
        /\ Returns(Router_socketpair(World, socket_type, flags))

RDrop ==
    \E r \in Router, h \in HostRets :
        ROpen(r) /\ Returns(Router_drop(World, r, h))

RouterNext ==
    \/ RNew
    \/ RBind
    \/ RListen
    \/ RAccept
    \/ RConnect
    \/ RDisconnect
    \/ RRead
    \/ RWrite
    \/ RReadv
    \/ RWritev
    \/ RSetStatusFlags
    \/ RSocketpair
    \/ RDrop

RouterSpec == RouterInit /\ [][RouterNext]_vars

(* ------------------------------------------------------------ socketpair runs *)
(* A call of socketpair runs its verbs one after the other; the verbs of     *)
(* the other threads interleave between them.                                *)

\* The call fails with errno e: its locals are dropped.
SpFail(t, W, e) ==
    /\ Commit(W)
    /\ sp' = [sp EXCEPT ![t] = [SpIdle EXCEPT !.pc = "failed", !.ret = e]]

\* let listen_socket = Self::new(flags)?; let bound_path = ...bind_until_success();
SpStart(flagsets) ==
    \E t \in PairCalls, flags \in flagsets :
        /\ sp[t].pc = "idle"
        /\ HasFresh(World)
        /\ num < MaxPairNum
        /\ LET listen_socket == Fresh(World)
               W1 == Local(Stream_new(World, listen_socket, flags), listen_socket)
               b == bind_until_success(W1, listen_socket)
           IN /\ Commit(b.w)
              /\ sp' = [sp EXCEPT ![t] = [SpIdle EXCEPT !.pc = "bound",
                                                        !.flags = flags,
                                                        !.listen_socket = listen_socket,
                                                        !.bound_path = b.val.path]]

\* listen_socket.listen(1)?;
SpListen ==
    \E t \in PairCalls :
        /\ sp[t].pc = "bound"
        /\ LET r == Stream_listen(World, sp[t].listen_socket, 1)
           IN IF r.ret = "OK"
              THEN Commit(r.w) /\ sp' = [sp EXCEPT ![t].pc = "listening"]
              ELSE SpFail(t, Stream_drop(r.w, sp[t].listen_socket), r.ret)

\* let client_socket = Self::new(flags)?; client_socket.connect(Some(bound_path))?;
SpConnect ==
    \E t \in PairCalls :
        /\ sp[t].pc = "listening"
        /\ FreeSlots(World) >= 2
        /\ LET client_socket == Fresh(World)
               W1 == Local(Stream_new(World, client_socket, sp[t].flags), client_socket)
               r == Stream_connect(W1, client_socket,
                                   Some(UnixSocketAddr(sp[t].bound_path)))
           IN IF r.ret = "OK"
              THEN /\ Commit(r.w)
                   /\ sp' = [sp EXCEPT ![t].pc = "connected",
                                       ![t].client_socket = client_socket]
              ELSE SpFail(t, Stream_drop(Stream_drop(r.w, client_socket),
                                         sp[t].listen_socket), r.ret)

\* let (accepted_socket, _) = listen_socket.accept(flags, None)?;
SpAccept ==
    \E t \in PairCalls :
        /\ sp[t].pc = "connected"
        /\ LET r == Stream_accept(World, sp[t].listen_socket, sp[t].flags, None)
           IN IF r.ret = "OK"
              THEN /\ Commit(Local(r.w, r.val.sock))
                   /\ sp' = [sp EXCEPT ![t].pc = "accepted",
                                       ![t].accepted_socket = r.val.sock]
              ELSE SpFail(t, Stream_drop(Stream_drop(r.w, sp[t].client_socket),
                                         sp[t].listen_socket), r.ret)

\* Ok((client_socket, accepted_socket)): the listener goes out of scope and the
\* caller holds the pair.
SpReturn ==
    \E t \in PairCalls :
        /\ sp[t].pc = "accepted"
        /\ Commit(Release(Release(Stream_drop(World, sp[t].listen_socket),
                                  sp[t].client_socket),
                          sp[t].accepted_socket))
        /\ sp' = [sp EXCEPT ![t].pc = "returned"]

PairPaths == {SockPath(n) : n \in 0..(MaxPairNum - 1)}

PairNext ==
    \/ SpStart(FileFlagSets)
    \/ SpListen
    \/ SpConnect
    \/ SpAccept
    \/ SpReturn
    \/ New(PairMaxSock, {{}})
    \/ Bind(UnixAddrs(PairPaths))
    \/ Listen
    \/ Accept({{}})
    \/ Connect(MaxSlots, UnixAddrs(PairPaths))
    \/ Drop

PairSpec == Init /\ [][PairNext]_vars


(* ------------------------------------------------------------ address runs *)
(* A caller builds a UnixAddr from a path and has it copied into a buffer, *)
(* or fills a buffer itself; the buffer is then parsed.                     *)

MaxRawLen == 3
\* 0, 'a', the two bytes of U+00E9 (a lead and a continuation byte), and a
\* byte no UTF-8 text holds
AddrBytes == {0, 97, 195, 169, 255}
Fill(n, b) == [i \in 1..n |-> b]
\* Lengths around the sizes the parser compares with.
LongLens == {MAX_PATH_LEN - 1, MAX_PATH_LEN, MAX_PATH_LEN + 1,
             SizeOfIPv4SockAddr - SizeOfFamily - 1, SizeOfIPv4SockAddr - SizeOfFamily,
             SizeOfIPv6SockAddr - SizeOfFamily - 5, SizeOfIPv6SockAddr - SizeOfFamily - 4,
             SizeOfIPv6SockAddr - SizeOfFamily}
RawData == SeqsOf(AddrBytes, 0, MaxRawLen)
               \cup {Fill(n, 97) : n \in LongLens} \cup {Fill(n, 255) : n \in LongLens}
\* The paths a &str can hold.
AddrPaths == {p \in RawData : Utf8Valid(p)}
Families == {PF_UNSPEC, PF_LOCAL, PF_INET, PF_INET6, 3, PF_MAX - 1, PF_MAX, PF_MAX + 1, 65535}
\* size_of::<UnixAddr>()
SizeOfUnixAddr == SizeOfFamily + MAX_PATH_LEN + 2
DstLens == {1, SizeOfUnixAddr}
\* The lengths a caller passes with a buffer it owns.
RawLens(buf) == {n \in 0..Len(buf) : n <= SizeOfFamily + 1 \/ n >= Len(buf) - 1}

Others == <<socks, servers, registry, eps, rings, num, routers, HOST_UNIX_ADDRS, sp, th>>

\* UnixAddr::new(path)
AddrNew ==
    \E path \in AddrPaths :
        LET a == UnixAddr_new(path)
        IN /\ ab.pc = "idle"
           /\ ab' = [NoAddr EXCEPT !.pc = "new", !.path = path,
                                   !.addr = IF a.ret = "OK" THEN Some(a.val) ELSE None,
                                   !.res = AErr(a.ret)]
           /\ UNCHANGED Others

\* SockAddr::UnixSocket(addr).copy_to_slice(dst), dst a zeroed buffer
AddrCopyToSlice ==
    \E n \in DstLens :
        /\ ab.pc = "new" /\ IsSome(ab.addr)
        /\ LET c == copy_to_slice(UnixSockAddr(Unwrap(ab.addr)), Zeros(n))
           IN ab' = [ab EXCEPT !.pc = "copied", !.buf = c.dst, !.len = c.ret]
        /\ UNCHANGED Others

\* A caller fills a sockaddr buffer itself.
AddrRaw ==
    \E family \in Families, data \in RawData :
        \E len \in RawLens(U16Bytes(family) \o data) :
            /\ ab.pc = "idle"
            /\ ab' = [NoAddr EXCEPT !.pc = "raw", !.buf = U16Bytes(family) \o data,
                                    !.len = len]
            /\ UNCHANGED Others

\* SockAddr::try_from_raw(buf, len); the caller guarantees len bytes.
AddrTryFromRaw ==
    /\ ab.pc \in {"copied", "raw"}
    /\ ab.len <= Len(ab.buf)
    /\ ab' = [ab EXCEPT !.pc = "parsed", !.from = ab.pc,
                        !.res = try_from_raw(ab.buf, ab.len)]
    /\ UNCHANGED Others

AddrNext ==
    \/ AddrNew
    \/ AddrCopyToSlice
    \/ AddrRaw
    \/ AddrTryFromRaw

AddrSpec == Init /\ [][AddrNext]_vars


(* ------------------------------------------------------------ listener runs *)
(* One path, enough sockets for a listener with an accepted connection and  *)
(* a pending one, and single bytes in flight.                               *)

\* sockets constructed in the listener runs
ListenMaxSock == 4

ListenNext ==
    \/ New(ListenMaxSock, {{}})
    \/ Bind(UnixAddrs(DataPaths))
    \/ Listen
    \/ Accept({{}})
    \/ Connect(ListenMaxSock, UnixAddrs(DataPaths))
    \/ Read(MaxIoLen)
    \/ Write(MaxByte, MaxIoLen, MaxSent)
    \/ Drop

ListenSpec == Init /\ [][ListenNext]_vars

(* ------------------------------------------------------------ poll runs *)
(* EndPoint::poll as a function of the two halves it locks: the rings of    *)
(* one channel start in any state of their queue and of their closed flags, *)
(* and the two ends read and write in non-blocking mode.                    *)

PollChannel == 1
PollEnds == {<<PollChannel, "a">>, <<PollChannel, "b">>}
PollRings == [buf : SeqsOf(1..MaxByte, 0, BufCap),
              reader_closed : BOOLEAN, writer_closed : BOOLEAN,
              reader_nb : {TRUE}, writer_nb : {TRUE}]

PollInit ==
    /\ socks = [s \in Sock |-> NoSock]
    /\ servers = [k \in Sock |-> NoServer]
    /\ registry = {}
    /\ \E r1 \in PollRings, r2 \in PollRings :
          LET W0 == [eps |-> [c \in Sock |-> [a |-> NoEnd, b |-> NoEnd]],
                     rings |-> [c \in Sock |-> <<NoRing, NoRing>>]]
              W == new_duplex_channel(W0, PollChannel)
          IN /\ eps = W.eps
             /\ rings = [W.rings EXCEPT ![PollChannel] = <<r1, r2>>]
    /\ num = 0
    /\ routers = [r \in Router |-> NoRouter]
    /\ HOST_UNIX_ADDRS = {}
    /\ sp = [t \in PairCalls |-> SpIdle]
    /\ ab = NoAddr
    /\ th = [t \in Threads |-> NoThread]

PollRead ==
    \E e \in PollEnds, n \in 1..MaxIoLen :
        /\ LET r == EndPoint_read(World, e, n)
           IN r.ret # "BLOCK" /\ Commit(r.w)
        /\ UNCHANGED sp

PollWrite ==
    \E e \in PollEnds, data \in IoBufs(MaxByte, MaxIoLen) :
        /\ Len(End(World, e).sent) + Len(data) <= MaxSent
        /\ LET r == EndPoint_write(World, e, data)
           IN r.ret # "BLOCK" /\ Commit(r.w)
        /\ UNCHANGED sp

PollNext ==
    \/ PollRead
    \/ PollWrite

PollSpec == PollInit /\ [][PollNext]_vars

(* ------------------------------------------------------------ lock runs *)
(* The locks each verb of StreamUnixSocket takes, in the order and nesting  *)
(* of its code.  A verb is the set of its lock scripts, one per path through *)
(* its branches; a script is a sequence of acquire and release steps.  The  *)
(* threads run verbs on the sockets at the same time and a step that finds  *)
(* its lock taken waits.  Socket s holds end point s; p stands for the other *)
(* socket a verb reaches (the peer, or the socket it pops or constructs) and *)
(* k for the server.                                                        *)

LockSocks == 1..MaxLockSocks

\* UNIX_SOCKET_SERVERS, a server's pending_connections, and per socket the
\* fields path, channel, server and the name, reader and writer of its end.
REGISTRY == <<"registry", 0>>
Fifo(k) == <<"fifo", k>>
PathLock(s) == <<"path", s>>
ChannelLock(s) == <<"channel", s>>
ServerLock(s) == <<"server", s>>
NameLock(s) == <<"name", s>>
ReaderLock(s) == <<"reader", s>>
WriterLock(s) == <<"writer", s>>

\* The place of a lock in the discipline ServerRegistry, ListeningServer fifo,
\* StreamUnixSocket.channel, EndPoint reader/writer; 0 for the read-write
\* locks the discipline does not name.
Rank(l) ==
    CASE l[1] = "registry" -> 1
      [] l[1] = "fifo" -> 2
      [] l[1] = "channel" -> 3
      [] l[1] \in {"reader", "writer"} -> 4
      [] OTHER -> 0

\* m: "x" for a mutex or a write lock, "r" for a read lock.
Acq(l, m) == <<[a |-> "acq", l |-> l, m |-> m]>>
Rel(l, m) == <<[a |-> "rel", l |-> l, m |-> m]>>
\* A guard that is a temporary of one statement.
Tmp(l, m) == Acq(l, m) \o Rel(l, m)
\* A guard alive over the steps of inner.
Hold(l, m, inner) == Acq(l, m) \o inner \o Rel(l, m)
Opt(script) == {<<>>, script}
Cat(A, B) == {x \o y : x \in A, y \in B}

\* StreamUnixSocket::path
LockPath(s) == Tmp(PathLock(s), "r")

\* EndPoint::set_non_blocking / set_blocking under the channel lock
LockSetMode(s) ==
    {Hold(ChannelLock(s), "x", x) :
        x \in Opt(Tmp(ReaderLock(s), "x") \o Tmp(WriterLock(s), "x"))}

\* the channel lock, then EndPoint::peer_name
LockPeerName(s, p) ==
    {Hold(ChannelLock(s), "x", x) : x \in Opt(Tmp(NameLock(p), "r"))}

LockBind(s) ==
    {LockPath(s)}
    \cup {LockPath(s) \o Tmp(PathLock(s), "x") \o Hold(ChannelLock(s), "x", x) :
            x \in Opt(Tmp(NameLock(s), "x"))}

LockListen(s) ==
    {LockPath(s),
     LockPath(s) \o Tmp(ServerLock(s), "r"),
     LockPath(s) \o Tmp(ServerLock(s), "r") \o Tmp(REGISTRY, "x"),
     LockPath(s) \o Tmp(ServerLock(s), "r") \o Tmp(REGISTRY, "x")
                 \o Tmp(ServerLock(s), "x")}

LockAccept(s, p, k) ==
    {LockPath(s),
     LockPath(s) \o Tmp(REGISTRY, "x"),
     LockPath(s) \o Tmp(REGISTRY, "x") \o Tmp(Fifo(k), "x")}
    \cup Cat(Cat({LockPath(s) \o Tmp(REGISTRY, "x") \o Tmp(Fifo(k), "x")},
                 {<<>>} \cup LockSetMode(p)),
             {<<>>} \cup LockPeerName(s, p))

\* A connect that keeps its channel locked from the start to the end.
LockConnect_locked(s, p, k) ==
    {Tmp(ChannelLock(s), "x"),
     <<>>,
     Hold(ChannelLock(s), "x", Tmp(REGISTRY, "x"))}
    \cup {Hold(ChannelLock(s), "x",
               Tmp(REGISTRY, "x") \o Tmp(NameLock(p), "x") \o x \o Tmp(Fifo(k), "x")) :
            x \in Opt(Tmp(ReaderLock(s), "x") \o Tmp(WriterLock(s), "x"))}

\* connect: the null address; not a Unix address; no server; a new channel
\* whose end channel_b becomes this socket's and whose end channel_a goes
\* to the socket queued.
LockConnect(s, p, k) ==
    {Tmp(ChannelLock(s), "x"),
     <<>>,
     Tmp(REGISTRY, "x")}
    \cup {Tmp(REGISTRY, "x") \o Tmp(NameLock(p), "x") \o x
            \o Tmp(ChannelLock(s), "x") \o Tmp(Fifo(k), "x") :
            x \in Opt(Tmp(ReaderLock(s), "x") \o Tmp(WriterLock(s), "x"))}

\* read, readv and ioctl(FIONREAD)
LockRead(s) == {Hold(ChannelLock(s), "x", x) : x \in Opt(Tmp(ReaderLock(s), "x"))}
\* write, writev and sendto
LockWrite(s) == {Hold(ChannelLock(s), "x", x) : x \in Opt(Tmp(WriterLock(s), "x"))}

LockRecvfrom(s, p) == Cat(LockRead(s), {<<>>} \cup LockPeerName(s, p))

\* poll: EndPoint::poll holds the reader and the writer together; without a
\* channel the path and the server are read under the channel lock.
LockPoll(s) ==
    {Hold(ChannelLock(s), "x", x) :
        x \in {Hold(ReaderLock(s), "x", Tmp(WriterLock(s), "x")),
               LockPath(s),
               LockPath(s) \o Tmp(ServerLock(s), "r")}}

\* impl Drop: remove_server under the read lock of the server field
LockDrop(s) == {Hold(ServerLock(s), "r", x) : x \in Opt(Tmp(REGISTRY, "x"))}

\* The scripts of every verb on every socket.
LockScripts ==
    UNION {LockBind(s) \cup LockListen(s) \cup LockRead(s) \cup LockWrite(s)
           \cup LockSetMode(s) \cup LockPoll(s) \cup LockDrop(s)
           \cup UNION {LockAccept(s, p, k) \cup LockConnect(s, p, k) \cup LockRecvfrom(s, p) :
                          p \in LockSocks \ {s}, k \in LockSocks} :
           s \in LockSocks} \ {<<>>}

\* Thread t has its next step to take.
Running(t) == th[t].script # <<>>
NextStep(t) == Head(th[t].script)
\* Another thread holds the lock of step st in a mode that excludes it.
Taken(t, st) ==
    \E u \in Threads \ {t} : \E i \in 1..Len(th[u].held) :
        /\ th[u].held[i].l = st.l
        /\ (th[u].held[i].m = "x" \/ st.m = "x")
\* Thread t waits for a lock that thread u holds.
WaitsFor(t, u) ==
    /\ t # u /\ Running(t) /\ NextStep(t).a = "acq"
    /\ \E i \in 1..Len(th[u].held) :
          /\ th[u].held[i].l = NextStep(t).l
          /\ (th[u].held[i].m = "x" \/ NextStep(t).m = "x")

Without(held, l) == SelectSeq(held, LAMBDA h : h.l # l)

LockInit ==
    /\ socks = [s \in Sock |-> NoSock]
    /\ servers = [k \in Sock |-> NoServer]
    /\ registry = {}
    /\ eps = [c \in Sock |-> [a |-> NoEnd, b |-> NoEnd]]
    /\ rings = [c \in Sock |-> <<NoRing, NoRing>>]
    /\ num = 0
    /\ routers = [r \in Router |-> NoRouter]
    /\ HOST_UNIX_ADDRS = {}
    /\ sp = [t \in PairCalls |-> SpIdle]
    /\ ab = NoAddr
    /\ th = [t \in Threads |-> NoThread]

\* A thread enters a verb.
LockCall ==
    \E t \in Threads, script \in LockScripts :
        /\ ~Running(t)
        /\ th' = [th EXCEPT ![t] = [script |-> script, held |-> <<>>]]
        /\ UNCHANGED <<socks, servers, registry, eps, rings, num, routers, HOST_UNIX_ADDRS, sp, ab>>

\* A thread takes a lock that is free.
LockAcquire ==
    \E t \in Threads :
        /\ Running(t) /\ NextStep(t).a = "acq" /\ ~Taken(t, NextStep(t))
        /\ th' = [th EXCEPT ![t].script = Tail(@),
                            ![t].held = Append(@, [l |-> NextStep(t).l,
                                                   m |-> NextStep(t).m])]
        /\ UNCHANGED <<socks, servers, registry, eps, rings, num, routers, HOST_UNIX_ADDRS, sp, ab>>

\* A guard is dropped.
LockRelease ==
    \E t \in Threads :
        /\ Running(t) /\ NextStep(t).a = "rel"
        /\ th' = [th EXCEPT ![t].script = Tail(@),
                            ![t].held = Without(@, NextStep(t).l)]
        /\ UNCHANGED <<socks, servers, registry, eps, rings, num, routers, HOST_UNIX_ADDRS, sp, ab>>

LockNext ==
    \/ LockCall
    \/ LockAcquire
    \/ LockRelease

LockSpec == LockInit /\ [][LockNext]_vars

(* ------------------------------------------------------------ step runs *)
(* The verbs bind, listen, connect and set_status_flags of StreamUnixSocket *)
(* taken one shared access at a time: each read or write of a field under   *)
(* its own guard, each call of the registry or of a pending queue, is a     *)
(* step, and the steps of the threads interleave.  sp[t] is the verb thread *)
(* t is in: the socket, what it has read so far, and the result once it has *)
(* returned.                                                                *)

StepMaxSock == 3
StepPaths == {"/srv"}

StIdle == [pc |-> "idle", verb |-> "", s |-> 0, path |-> "", k |-> 0, c |-> 0,
           nb |-> FALSE, ret |-> ""]
StEnter(verb, s, pc) == [StIdle EXCEPT !.pc = pc, !.verb = verb, !.s = s]
StDone(call, ret) == [call EXCEPT !.pc = "done", !.ret = ret]
\* Thread t is inside a verb of socket s.
StInside(t, s) == sp[t].s = s /\ sp[t].pc \notin {"idle", "done"}

StepInit ==
    /\ socks = [s \in Sock |-> NoSock]
    /\ servers = [k \in Sock |-> NoServer]
    /\ registry = {}
    /\ eps = [c \in Sock |-> [a |-> NoEnd, b |-> NoEnd]]
    /\ rings = [c \in Sock |-> <<NoRing, NoRing>>]
    /\ num = 0
    /\ routers = [r \in Router |-> NoRouter]
    /\ HOST_UNIX_ADDRS = {}
    /\ sp = [t \in Threads |-> StIdle]
    /\ ab = NoAddr
    /\ th = [t \in Threads |-> NoThread]

\* bind: self.path().is_some(), and the variant of the address
StBindPath ==
    \E t \in Threads, s \in Sock, addr \in UnixAddrs(StepPaths) \cup {IPv4Addr} :
        /\ sp[t].pc = "idle" /\ Open(s)
        /\ sp' = [sp EXCEPT ![t] =
                    IF IsSome(Stream_path(World, s)) \/ addr.kind # "UnixSocket"
                    THEN StDone(StEnter("bind", s, ""), "EINVAL")
                    ELSE [StEnter("bind", s, "bind_write") EXCEPT !.path = addr.path]]
        /\ Commit(World)
\* bind: *self.path.write() = Some(path)
StBindWrite ==
    \E t \in Threads :
        /\ sp[t].pc = "bind_write"
        /\ sp' = [sp EXCEPT ![t].pc = "bind_name"]
        /\ Commit([World EXCEPT !.socks[sp[t].s].path = Some(sp[t].path)])
\* bind: under the channel lock, the end is named
StBindName ==
    \E t \in Threads :
        /\ sp[t].pc = "bind_name"
        /\ sp' = [sp EXCEPT ![t] = StDone(@, "OK")]
        /\ LET ch == socks[sp[t].s].channel
           IN Commit(IF IsSome(ch)
                     THEN EndPoint_set_name(World, Unwrap(ch), sp[t].path)
                     ELSE World)

\* listen: self.path()
StListenPath ==
    \E t \in Threads, s \in Sock :
        /\ sp[t].pc = "idle" /\ Open(s)
        /\ sp' = [sp EXCEPT ![t] =
                    IF IsNone(Stream_path(World, s))
                    THEN StDone(StEnter("listen", s, ""), "EINVAL")
                    ELSE [StEnter("listen", s, "listen_check")
                            EXCEPT !.path = Unwrap(Stream_path(World, s))]]
        /\ Commit(World)
\* listen: self.server.read().is_none()
StListenCheck ==
    \E t \in Threads :
        /\ sp[t].pc = "listen_check"
        /\ sp' = [sp EXCEPT ![t] = IF IsNone(socks[sp[t].s].server)
                                   THEN [@ EXCEPT !.pc = "listen_create"]
                                   ELSE StDone(@, "OK")]
        /\ Commit(World)
\* listen: UnixSocketServer::create_server(&path)?
StListenCreate ==
    \E t \in Threads :
        /\ sp[t].pc = "listen_create"
        /\ LET r == create_server(World, sp[t].path, sp[t].s)
           IN /\ sp' = [sp EXCEPT ![t] = IF r.ret = "OK"
                                         THEN [@ EXCEPT !.pc = "listen_store", !.k = r.val]
                                         ELSE StDone(@, r.ret)]
              /\ Commit(r.w)
\* listen: *self.server.write() = Some(server)
StListenStore ==
    \E t \in Threads :
        /\ sp[t].pc = "listen_store"
        /\ sp' = [sp EXCEPT ![t] = StDone(@, "OK")]
        /\ Commit([World EXCEPT !.socks[sp[t].s].server = Some(sp[t].k)])

\* connect to a Unix address: UnixSocketServer::get_server(&path)
StConnectLookup ==
    \E t \in Threads, s \in Sock, addr \in UnixAddrs(StepPaths) :
        /\ sp[t].pc = "idle" /\ Open(s)
        /\ LET server == get_server(World, addr.path)
           IN sp' = [sp EXCEPT ![t] =
                        IF IsNone(server)
                        THEN StDone(StEnter("connect", s, ""), "ECONNREFUSED")
                        ELSE [StEnter("connect", s, "connect_channel")
                                EXCEPT !.path = addr.path, !.k = Unwrap(server)]]
        /\ Commit(World)
\* connect: the new channel, named, and channel_b set non-blocking if
\* !self.is_blocking(); the slot of the socket to queue is taken.
StConnectChannel ==
    \E t \in Threads :
        /\ sp[t].pc = "connect_channel"
        /\ Constructed(World) < StepMaxSock
        /\ LET c == Fresh(World)
               W1 == new_duplex_channel(World, c)
               W2 == EndPoint_set_name(W1, <<c, "a">>, sp[t].path)
               W3 == IF ~Stream_is_blocking(World, sp[t].s)
                     THEN EndPoint_set_non_blocking(W2, <<c, "b">>)
                     ELSE W2
           IN /\ sp' = [sp EXCEPT ![t].pc = "connect_store", ![t].c = c]
              /\ Commit([W3 EXCEPT !.socks[c].st = "local"])
\* connect: *self.channel.lock() = Some(channel_b)
StConnectStore ==
    \E t \in Threads :
        /\ sp[t].pc = "connect_store"
        /\ sp' = [sp EXCEPT ![t].pc = "connect_push"]
        /\ Commit(SetChannel(World, sp[t].s, Some(<<sp[t].c, "b">>)))
\* connect: server.push_pending(server_socket)
StConnectPush ==
    \E t \in Threads :
        /\ sp[t].pc = "connect_push"
        /\ sp' = [sp EXCEPT ![t] = StDone(@, "OK")]
        /\ LET c == sp[t].c
               server_socket == [st |-> "pending",
                                 path |-> Some(sp[t].path),
                                 channel |-> Some(<<c, "a">>),
                                 server |-> Some(sp[t].k),
                                 is_blocking |-> TRUE,
                                 queued_at |-> Some(sp[t].k)]
           IN Commit(push_pending([World EXCEPT !.socks[c] = server_socket], sp[t].k, c))

\* set_non_blocking / set_blocking: self.is_blocking.store(..)
StSetFlag ==
    \E t \in Threads, s \in Sock, nb \in BOOLEAN :
        /\ sp[t].pc = "idle" /\ Open(s)
        /\ sp' = [sp EXCEPT ![t] = [StEnter("set_status_flags", s, "set_mode")
                                      EXCEPT !.nb = nb]]
        /\ Commit([World EXCEPT !.socks[s].is_blocking = ~nb])
\* set_non_blocking / set_blocking: under the channel lock, the mode of the end
StSetMode ==
    \E t \in Threads :
        /\ sp[t].pc = "set_mode"
        /\ sp' = [sp EXCEPT ![t] = StDone(@, "OK")]
        /\ LET ch == socks[sp[t].s].channel
           IN Commit(IF IsSome(ch) THEN SetMode(World, Unwrap(ch), sp[t].nb) ELSE World)

\* The caller has its result.
StReturn ==
    \E t \in Threads :
        /\ sp[t].pc = "done"
        /\ sp' = [sp EXCEPT ![t] = StIdle]
        /\ Commit(World)

\* A socket is dropped by its owner: no thread is inside one of its verbs, nor
\* holds the server it listens on.
StDrop ==
    \E s \in Sock :
        /\ Open(s)
        /\ \A t \in Threads :
              ~StInside(t, s) /\ (sp[t].pc \in {"idle", "done"} \/ Some(sp[t].k) # socks[s].server)
        /\ Commit(Stream_drop(World, s))
        /\ UNCHANGED sp

StepNext ==
    \/ New(StepMaxSock, FileFlagSets)
    \/ StBindPath
    \/ StBindWrite
    \/ StBindName
    \/ StListenPath
    \/ StListenCheck
    \/ StListenCreate
    \/ StListenStore
    \/ StConnectLookup
    \/ StConnectChannel
    \/ StConnectStore
    \/ StConnectPush
    \/ StSetFlag
    \/ StSetMode
    \/ StReturn
    \/ StDrop

StepSpec == StepInit /\ [][StepNext]_vars

(* ------------------------------------------------------------ blocking runs *)
(* The two sockets of one connection, both in blocking mode, and threads    *)
(* that run read, write, poll, ioctl and set_status_flags on them under the *)
(* locks of the lock runs.  The transfer itself is a step taken with the    *)
(* locks held: a read that finds no byte (a write that finds no room)       *)
(* suspends the thread where it is until the ring lets it go on.            *)

BlockMaxSent == 2
BlockSocks == {1, 2}
\* Socket 1 holds end a and socket 2 end b of channel 1.
BlockEnd(s) == <<1, IF s = 1 THEN "a" ELSE "b">>

\* The call of the ring buffer, made under guard l of socket l[2].
Io(a, l) == <<[a |-> a, l |-> l, m |-> "x"]>>
\* StreamUnixSocket::read: the channel guard lives across EndPoint::read
BlockRead(s) ==
    Hold(ChannelLock(s), "x", Hold(ReaderLock(s), "x", Io("read", ReaderLock(s))))
\* StreamUnixSocket::write: the channel guard lives across EndPoint::write
BlockWrite(s) ==
    Hold(ChannelLock(s), "x", Hold(WriterLock(s), "x", Io("write", WriterLock(s))))
\* poll, ioctl(FIONREAD) and set_status_flags of a connected socket
BlockPoll(s) ==
    Hold(ChannelLock(s), "x", Hold(ReaderLock(s), "x", Tmp(WriterLock(s), "x")))
BlockIoctl(s) == Hold(ChannelLock(s), "x", Tmp(ReaderLock(s), "x"))
BlockSetStatusFlags(s) ==
    Hold(ChannelLock(s), "x", Tmp(ReaderLock(s), "x") \o Tmp(WriterLock(s), "x"))
\* The verbs that do not wait for bytes.
BlockQuick(s) == {BlockPoll(s), BlockIoctl(s), BlockSetStatusFlags(s)}

\* The writes of socket s that threads have entered and not yet made.
WritesAhead(s) ==
    Cardinality({t \in Threads :
        \E i \in 1..Len(th[t].script) :
            th[t].script[i].a = "write" /\ th[t].script[i].l = WriterLock(s)})

BlockInit ==
    /\ socks = [s \in Sock |->
                  IF s \in BlockSocks
                  THEN [NoSock EXCEPT !.st = "open", !.channel = Some(BlockEnd(s))]
                  ELSE NoSock]
    /\ servers = [k \in Sock |-> NoServer]
    /\ registry = {}
    /\ LET W0 == [eps |-> [c \in Sock |-> [a |-> NoEnd, b |-> NoEnd]],
                  rings |-> [c \in Sock |-> <<NoRing, NoRing>>]]
           W == new_duplex_channel(W0, 1)
       IN eps = W.eps /\ rings = W.rings
    /\ num = 0
    /\ routers = [r \in Router |-> NoRouter]
    /\ HOST_UNIX_ADDRS = {}
    /\ sp = [t \in PairCalls |-> SpIdle]
    /\ ab = NoAddr
    /\ th = [t \in Threads |-> NoThread]

\* The verbs a thread may enter on socket s; the writes are bounded.
BlockVerbs(s) ==
    BlockQuick(s) \cup {BlockRead(s)}
    \cup (IF Len(End(World, BlockEnd(s)).sent) + WritesAhead(s) < BlockMaxSent
          THEN {BlockWrite(s)}
          ELSE {})

\* A thread enters a verb of one of the two sockets.
BlockCall ==
    \E t \in Threads, s \in BlockSocks :
        \E script \in BlockVerbs(s) :
            /\ ~Running(t)
            /\ th' = [th EXCEPT ![t] = [script |-> script, held |-> <<>>]]
            /\ UNCHANGED <<socks, servers, registry, eps, rings, num, routers,
                           HOST_UNIX_ADDRS, sp, ab>>

\* EndPoint::read of one byte / EndPoint::write of one byte, as thread t is
\* about to make it.
Transfer(t) ==
    LET e == BlockEnd(NextStep(t).l[2])
    IN IF NextStep(t).a = "read"
       THEN EndPoint_read(World, e, 1)
       ELSE EndPoint_write(World, e, <<1>>)
AtTransfer(t) == Running(t) /\ NextStep(t).a \in {"read", "write"}
\* Thread t is suspended inside the ring buffer.
Suspended(t) == AtTransfer(t) /\ Transfer(t).ret = "BLOCK"

\* The ring buffer lets the thread go on.
BlockTransfer ==
    \E t \in Threads :
        /\ AtTransfer(t) /\ ~Suspended(t)
        /\ eps' = Transfer(t).w.eps
        /\ rings' = Transfer(t).w.rings
        /\ th' = [th EXCEPT ![t].script = Tail(@)]
        /\ UNCHANGED <<socks, servers, registry, num, routers, HOST_UNIX_ADDRS, sp, ab>>

BlockNext ==
    \/ BlockCall
    \/ LockAcquire
    \/ LockRelease
    \/ BlockTransfer

BlockSpec == BlockInit /\ [][BlockNext]_vars

(* ------------------------------------------------------------ claims *)

\* The channel c has been created and not yet released.
Allocated(c) == eps[c].a.live \/ eps[c].b.live

\* C1: in each direction of every duplex channel, the bytes the one end has read
\* followed by the bytes still in its reader are exactly the bytes the other end
\* has written, in the order written: what is read is a prefix of what was
\* written, with no loss, duplication or reordering.
C1_ChannelFifo ==
    \A c \in Sock, side \in {"a", "b"} :
        Allocated(c)
        => LET e == <<c, side>>
           IN /\ End(World, Peer(e)).rcvd \o ReaderRing(World, Peer(e)).buf
                    = End(World, e).sent
              /\ IsPrefix(End(World, Peer(e)).rcvd, End(World, e).sent)

\* One end has written two different bytes and more, the other has read the
\* first two of them while the rest is in flight, and bytes have gone the
\* other way too.
C1_Witness ==
    \E c \in Sock :
        /\ Len(eps[c].b.sent) > 2
        /\ eps[c].b.sent[1] # eps[c].b.sent[2]
        /\ Len(eps[c].a.rcvd) = 2
        /\ Len(eps[c].a.sent) > 0
        /\ Len(eps[c].b.rcvd) > 0

Held(s) == socks[s].st \in {"open", "local"}
\* Socket s was constructed by connect and queued on server k.
QueuedAt(s, k) == socks[s].queued_at = Some(k)
\* Socket s has been taken off the queue it was pushed on.
Accepted(s) == IsSome(socks[s].queued_at) /\ socks[s].st # "pending"
QueueSet(k) == {servers[k].pending_connections[i] :
                    i \in 1..Len(servers[k].pending_connections)}

\* C2: one server's pending FIFO hands out the connections in the order in which
\* connect queued them (a connection queued earlier is never still pending once a
\* later one has been accepted), and a queued connection is handed out at most
\* once (a queue holds exactly the connections not yet accepted, each once).
C2_AcceptFifo ==
    /\ \A k \in Sock, x \in Sock, y \in Sock :
          (QueuedAt(x, k) /\ QueuedAt(y, k) /\ x < y /\ Accepted(y)) => Accepted(x)
    /\ \A k \in Sock :
          /\ QueueSet(k) = {x \in Sock : QueuedAt(x, k) /\ socks[x].st = "pending"}
          /\ Cardinality(QueueSet(k)) = Len(servers[k].pending_connections)

\* Two connections were queued on one server, the first has been accepted and
\* the second is still pending.
C2_Witness ==
    \E k \in Sock, x \in Sock, y \in Sock :
        /\ QueuedAt(x, k) /\ QueuedAt(y, k) /\ x < y
        /\ socks[x].st = "open" /\ socks[y].st = "pending"


\* Socket l holds the server its own listen created.
Listener(l) == Held(l) /\ socks[l].server = Some(l)

\* C3: the registry holds at most one server per path; listen on a socket bound
\* to a path that another socket's listen registered fails with EADDRINUSE and
\* leaves the registry unchanged and the caller bound but not listening; bind
\* to a path that is already listened on succeeds.
C3_OneServerPerPath ==
    /\ \A e1 \in registry, e2 \in registry : e1[1] = e2[1] => e1 = e2
    /\ \A s \in Sock, backlog \in Backlogs :
          (/\ Open(s)
           /\ IsSome(socks[s].path)
           /\ \E k \in Sock : k # s /\ <<Unwrap(socks[s].path), k>> \in registry)
          => LET r == Stream_listen(World, s, backlog)
             IN /\ r.ret = "EADDRINUSE"
                /\ r.w.registry = registry
                /\ r.w.socks[s].path = socks[s].path
                /\ IsNone(r.w.socks[s].server)
    /\ \A s \in Sock, p \in UserPaths :
          (Open(s) /\ IsNone(socks[s].path) /\ contains_key(registry, p))
          => LET r == Stream_bind(World, s, UnixSocketAddr(p))
             IN r.ret = "OK" /\ r.w.socks[s].path = Some(p)

\* C4: while a listener is held the registry maps its path to the server it
\* created, whatever other sockets are dropped; once the listener is dropped
\* the registry has no entry for that server.
C4_ListenerStaysRegistered ==
    /\ \A l \in Sock :
          Listener(l) => <<Unwrap(socks[l].path), l>> \in registry
    /\ \A k \in Sock :
          socks[k].st = "dropped" => \A en \in registry : en[2] # k

\* C5: accept on a listening socket whose pending queue is empty returns EAGAIN
\* in either mode and with either flag set, and changes nothing.
C5_AcceptEmptyEagain ==
    \A l \in Sock, flags \in FileFlagSets, addr \in AddrBufs :
        (Open(l) /\ Listener(l) /\ servers[l].pending_connections = <<>>)
        => LET r == Stream_accept(World, l, flags, addr)
           IN r.ret = "EAGAIN" /\ r.w = World

\* C6: connect to a Unix path without a registry entry returns ECONNREFUSED and
\* changes nothing: the caller's channel and path, every pending queue and the
\* registry are as before.
C6_ConnectRefused ==
    \A s \in Sock, p \in UserPaths :
        (Open(s) /\ ~contains_key(registry, p))
        => LET r == Stream_connect(World, s, Some(UnixSocketAddr(p)))
           IN r.ret = "ECONNREFUSED" /\ r.w = World

\* A connected socket connects to a path nobody listens on while another path
\* has a listener.
C6_Witness ==
    \E s \in Sock, p \in UserPaths :
        /\ Open(s) /\ IsSome(socks[s].channel)
        /\ ~contains_key(registry, p) /\ registry # {}
        /\ Stream_connect(World, s, Some(UnixSocketAddr(p))).ret = "ECONNREFUSED"

NotConnected(W, s) ==
    /\ \A n \in 1..MaxIoLen :
          LET r == Stream_read(W, s, n) IN r.ret = "ENOTCONN" /\ r.w = W
    /\ \A data \in IoBufs(MaxByte, MaxIoLen) :
          LET r == Stream_write(W, s, data) IN r.ret = "ENOTCONN" /\ r.w = W
    /\ \A lens \in LenVecs(MaxIoLen) :
          LET r == Stream_readv(W, s, lens) IN r.ret = "ENOTCONN" /\ r.w = W
    /\ \A bufs \in IoVecs(MaxByte, MaxIoLen) :
          LET r == Stream_writev(W, s, bufs) IN r.ret = "ENOTCONN" /\ r.w = W

\* The end e sees that its peer has closed, on its reader and on its writer.
SeesPeerClosed(W, e) ==
    /\ reader_is_peer_closed(ReaderRing(W, e))
    /\ writer_is_peer_closed(WriterRing(W, e))

\* The part of C7 that holds, on a StreamUnixSocket called directly: connect
\* with the null address on a connected socket succeeds and leaves the socket
\* without a channel; the peer end, while it is alive, sees peer closed; and a
\* socket without a channel fails read, write, readv and writev with ENOTCONN
\* (so it does until a connect gives it a channel again).
StreamNullConnectDissolves ==
    /\ \A s \in Sock :
          (Open(s) /\ IsSome(socks[s].channel))
          => LET e == Unwrap(socks[s].channel)
                 r == Stream_connect(World, s, None)
             IN /\ r.ret = "OK"
                /\ IsNone(r.w.socks[s].channel)
                /\ NotConnected(r.w, s)
                /\ End(World, Peer(e)).live
                   => (End(r.w, Peer(e)).live /\ SeesPeerClosed(r.w, Peer(e)))
    /\ \A s \in Sock :
          (Open(s) /\ IsNone(socks[s].channel)) => NotConnected(World, s)

\* A connected socket whose peer is alive, held by an accepted socket, and has
\* not seen a close yet: the null connect is about to dissolve this channel.
StreamNullConnectWitness ==
    \E s \in Sock, a \in Sock :
        /\ Open(s) /\ Open(a) /\ s # a
        /\ IsSome(socks[s].channel)
        /\ socks[a].channel = Some(Peer(Unwrap(socks[s].channel)))
        /\ ~SeesPeerClosed(World, Peer(Unwrap(socks[s].channel)))
        /\ Stream_connect(World, s, None).ret = "OK"

\* C7: connect with the null address on a connected socket succeeds and
\* dissolves its channel.  Stated for the UnixSocket the callers hold, and with
\* a host that lets the OCall of the verb succeed.
C7_NullConnectSucceeds ==
    \A r \in Router :
        (/\ ROpen(r)
         /\ IsSome(routers[r].libos_sock)
         /\ IsSome(socks[Unwrap(routers[r].libos_sock)].channel))
        => LET x == Router_connect(World, r, None, "OK")
           IN /\ x.ret = "OK"
              /\ IsNone(x.w.socks[Unwrap(routers[r].libos_sock)].channel)

\* Socket c was dropped while it held the end e.
DroppedHolding(c, e) == socks[c].st = "dropped" /\ socks[c].channel = Some(e)

\* C8: once the peer of a connected socket has been dropped, the socket's poll
\* includes POLLRDHUP while unread bytes remain in its reader, and is exactly
\* POLLHUP once they have all been read.
C8_PeerDropPoll ==
    \A s \in Sock, c \in Sock :
        (Open(s) /\ IsSome(socks[s].channel)
                 /\ DroppedHolding(c, Peer(Unwrap(socks[s].channel))))
        => LET e == Unwrap(socks[s].channel)
           IN /\ EndPoint_bytes_to_read(World, e) > 0 => POLLRDHUP \in Stream_poll(World, s)
              /\ EndPoint_bytes_to_read(World, e) = 0 => Stream_poll(World, s) = {POLLHUP}

\* C10: an accepted socket carries the path of the server it was queued on (the
\* listener's path), and the peer_name of its channel is the connecting
\* socket's own name, whenever that socket was bound.
C10_AcceptedNames ==
    \A a \in Sock, x \in Sock :
        (/\ Open(a) /\ Accepted(a) /\ Held(x)
         /\ socks[a].channel = Some(<<a, "a">>)
         /\ socks[x].channel = Some(<<a, "b">>))
        => /\ socks[a].path = Some(servers[Unwrap(socks[a].queued_at)].path)
           /\ EndPoint_peer_name(World, <<a, "a">>) = socks[x].path

\* C9: the two sockets a socketpair call is about to return hold the two ends
\* of one duplex channel, whatever the other threads did meanwhile.
C9_PairIsOneChannel ==
    \A t \in PairCalls :
        sp[t].pc = "accepted"
        => /\ IsSome(socks[sp[t].client_socket].channel)
           /\ socks[sp[t].accepted_socket].channel
                = Some(Peer(Unwrap(socks[sp[t].client_socket].channel)))

\* C11: the source tag of a UnixSocket leaves Unknown only through a bind of
\* that socket that succeeds, and once it is Libos or Host no verb changes it.
C11_SourceMonotonic ==
    [][\A r \in Router :
          (ROpen(r) /\ routers'[r].st = "open"
                    /\ routers'[r].source # routers[r].source)
          => /\ routers[r].source = "Unknown"
             /\ \E addr \in UnixAddrs(RouterPaths) \cup {IPv4Addr}, h \in HostRets :
                    LET x == Router_bind(World, r, addr, h)
                    IN x.ret = "OK" /\ x.w.routers[r].source = routers'[r].source]_vars

\* The verb whose result is x called the host socket of its UnixSocket.
OnHost(x) == \E i \in DOMAIN x.ocalls : x.ocalls[i] \in {"bind", "listen", "accept4"}
\* The verb whose result is x left the in-enclave socket of UnixSocket r, the
\* servers and the registry as they were.
OffLibos(x, r) ==
    /\ \A s \in routers[r].libos_sock : x.w.socks[s] = socks[s]
    /\ x.w.servers = servers
    /\ x.w.registry = registry
\* What a verb's result says about the world, the errno and the OCalls made.
Outcome(x) == [w |-> x.w, ret |-> x.ret, ocalls |-> x.ocalls]
ControlResults(r) ==
    {Outcome(Router_bind(World, r, addr, h)) :
         addr \in UnixAddrs(RouterPaths) \cup {IPv4Addr}, h \in HostRets}
    \cup {Outcome(Router_listen(World, r, backlog, h)) : backlog \in Backlogs, h \in HostRets}
    \cup {Outcome(Router_accept(World, r, flags, addr, h)) :
              flags \in FileFlagSets, addr \in AddrBufs, h \in HostRets}

\* C12: bind, listen and accept are routed by the tag: with tag Libos none of
\* them calls the host socket, with tag Host none of them touches the
\* in-enclave socket; with tag Unknown listen and accept return EINVAL and
\* touch nothing, and bind calls the host socket iff the address is a host path.
C12_ControlByTag ==
    \A r \in Router :
        (ROpen(r) /\ HasFreshRouter(World) /\ HasFresh(World))
        => /\ routers[r].source = "Libos"
                => \A x \in ControlResults(r) : ~OnHost(x)
           /\ routers[r].source = "Host"
                => \A x \in ControlResults(r) : OffLibos(x, r)
           /\ routers[r].source = "Unknown"
                => /\ \A backlog \in Backlogs, h \in HostRets :
                          LET x == Router_listen(World, r, backlog, h)
                          IN x.ret = "EINVAL" /\ x.w = World /\ x.ocalls = <<>>
                   /\ \A flags \in FileFlagSets, addr \in AddrBufs, h \in HostRets :
                          LET x == Router_accept(World, r, flags, addr, h)
                          IN x.ret = "EINVAL" /\ x.w = World /\ x.ocalls = <<>>
                   /\ \A addr \in UnixAddrs(RouterPaths) \cup {IPv4Addr}, h \in HostRets :
                          LET x == Router_bind(World, r, addr, h)
                          IN IF is_from_host(World, addr)
                             THEN OnHost(x) /\ OffLibos(x, r)
                             ELSE ~OnHost(x)

\* The router's result x is the in-enclave socket's result y and nothing else.
LibosOnly(x, y) == x.ocalls = <<>> /\ x.ret = y.ret /\ x.w = y.w
\* The router's result x comes from the host socket alone.
HostOnly(x) == x.ocalls # <<>> /\ x.w = World

\* C13: read, write, readv, writev, sendto and recvfrom are routed by the tag:
\* with tag Libos the caller gets the in-enclave socket's result, errors
\* included, and no OCall is made; with tag Host only the host socket is
\* called; without host paths no data verb reaches the host.
C13_DataByTag ==
    \A r \in Router, h \in HostRets :
        ROpen(r)
        => /\ routers[r].source = "Libos" =>
                \A s \in routers[r].libos_sock :
                    /\ \A n \in 1..MaxIoLen :
                        /\ LibosOnly(Router_read(World, r, n, h), Stream_read(World, s, n))
                        /\ \A addr \in AddrBufs :
                               LibosOnly(Router_recvfrom(World, r, n, addr, h),
                                         Stream_recvfrom(World, s, n, addr))
                    /\ \A data \in IoBufs(MaxByte, MaxIoLen) :
                        /\ LibosOnly(Router_write(World, r, data, h),
                                     Stream_write(World, s, data))
                        /\ LibosOnly(Router_sendto(World, r, data, None, h),
                                     Stream_sendto(World, s, data))
                    /\ \A lens \in LenVecs(MaxIoLen) :
                           LibosOnly(Router_readv(World, r, lens, h),
                                     Stream_readv(World, s, lens))
                    /\ \A bufs \in IoVecs(MaxByte, MaxIoLen) :
                           LibosOnly(Router_writev(World, r, bufs, h),
                                     Stream_writev(World, s, bufs))
           /\ routers[r].source = "Host" =>
                /\ \A n \in 1..MaxIoLen : HostOnly(Router_read(World, r, n, h))
                /\ \A data \in IoBufs(MaxByte, MaxIoLen) :
                       HostOnly(Router_write(World, r, data, h))
                /\ \A lens \in LenVecs(MaxIoLen) : HostOnly(Router_readv(World, r, lens, h))
                /\ \A bufs \in IoVecs(MaxByte, MaxIoLen) :
                       HostOnly(Router_writev(World, r, bufs, h))
           /\ HOST_UNIX_ADDRS = {} =>
                /\ \A n \in 1..MaxIoLen : Router_read(World, r, n, h).ocalls = <<>>
                /\ \A data \in IoBufs(MaxByte, MaxIoLen) :
                       Router_write(World, r, data, h).ocalls = <<>>

\* The verb whose result is x handed its buffers to a send OCall of the host
\* socket (host_sock.sendto(buf, ..) and host_sock.writev(bufs) pass them on).
SentToHost(x) == \E i \in DOMAIN x.ocalls : x.ocalls[i] \in {"sendto", "writev"}

\* C14: the bytes written on a UnixSocket whose in-enclave socket holds a
\* channel are never the payload of a host send OCall.
C14_NoLeakToHost ==
    \A r \in Router, h \in HostRets :
        (ROpen(r) /\ \E s \in routers[r].libos_sock : IsSome(socks[s].channel))
        => /\ \A data \in IoBufs(MaxByte, MaxIoLen) :
                  /\ ~SentToHost(Router_write(World, r, data, h))
                  /\ ~SentToHost(Router_sendto(World, r, data, None, h))
           /\ \A bufs \in IoVecs(MaxByte, MaxIoLen) :
                  ~SentToHost(Router_writev(World, r, bufs, h))

\* Every result a verb of UnixSocket r can give in the current state.
VerbResults(r) ==
    ControlResults(r)
    \cup {Outcome(Router_connect(World, r, addr, h)) :
              addr \in {None} \cup {Some(a) : a \in UnixAddrs(RouterPaths)}, h \in HostRets}
    \cup {Outcome(Router_read(World, r, n, h)) : n \in 1..MaxIoLen, h \in HostRets}
    \cup {Outcome(Router_recvfrom(World, r, n, addr, h)) :
              n \in 1..MaxIoLen, addr \in AddrBufs, h \in HostRets}
    \cup {Outcome(Router_write(World, r, data, h)) : data \in IoBufs(MaxByte, MaxIoLen), h \in HostRets}
    \cup {Outcome(Router_sendto(World, r, data, addr, h)) :
              data \in IoBufs(MaxByte, MaxIoLen),
              addr \in {None} \cup {Some(a) : a \in UnixAddrs(RouterPaths)}, h \in HostRets}
    \cup {Outcome(Router_readv(World, r, lens, h)) : lens \in LenVecs(MaxIoLen), h \in HostRets}
    \cup {Outcome(Router_writev(World, r, bufs, h)) : bufs \in IoVecs(MaxByte, MaxIoLen), h \in HostRets}
    \cup {Outcome(Router_ioctl(World, r, h)) : h \in HostRets}
    \cup {Outcome(Router_get_status_flags(World, r, h)) : h \in HostRets}
    \cup {Outcome(Router_set_status_flags(World, r, f, h)) : f \in {{}, {O_NONBLOCK}}, h \in HostRets}
    \cup {Outcome(Router_poll(World, r))}
\* Every result a constructor of UnixSockets can give in the current state.
ConstructorResults ==
    {Outcome(Router_new(World, socket_type, flags, protocol, h)) :
         socket_type \in SocketTypes, flags \in FileFlagSets,
         protocol \in Protocols, h \in HostRets}
    \cup {Outcome(Router_socketpair(World, socket_type, flags)) :
              socket_type \in SocketTypes, flags \in FileFlagSets}
\* There is room for the objects a verb may construct.
Room ==
    /\ Cardinality({r \in Router : routers[r].st = "none"}) >= 2
    /\ FreeSlots(World) >= 3

\* C15: without host paths no UnixSocket has a host socket and no verb of a
\* UnixSocket makes an OCall.
C15_PureModeNoHost ==
    HOST_UNIX_ADDRS = {}
    => /\ \A r \in Router : ROpen(r) => IsNone(routers[r].host_sock)
       /\ \A r \in Router :
              (ROpen(r) /\ HasFreshRouter(World) /\ HasFresh(World))
              => \A x \in VerbResults(r) : x.ocalls = <<>>
       /\ Room => \A x \in ConstructorResults : x.ocalls = <<>>

C17_NoUnwrapPanic ==
    \A r \in Router :
        (ROpen(r) /\ HasFreshRouter(World) /\ HasFresh(World))
        => \A x \in VerbResults(r) : x.ret # "PANIC"

\* C18: the poll of a socket without a channel is the empty set of flags when
\* the socket is bound and holds a server, and is exactly POLLHUP, POLLOUT,
\* POLLWRBAND and POLLWRNORM when it is fresh or bound without a server.
C18_PollWithoutChannel ==
    \A s \in Sock :
        (Open(s) /\ IsNone(socks[s].channel))
        => /\ (IsSome(socks[s].path) /\ IsSome(socks[s].server))
                => Stream_poll(World, s) = {}
           /\ (IsNone(socks[s].path) \/ IsNone(socks[s].server))
                => Stream_poll(World, s) = {POLLHUP, POLLOUT, POLLWRBAND, POLLWRNORM}

\* A listening socket, a bound socket that does not listen and a fresh socket,
\* all three without a channel, are open together.
C18_Witness ==
    \E l \in Sock, b \in Sock, f \in Sock :
        /\ Open(l) /\ Open(b) /\ Open(f)
        /\ IsNone(socks[l].channel) /\ IsNone(socks[b].channel) /\ IsNone(socks[f].channel)
        /\ IsSome(socks[l].path) /\ IsSome(socks[l].server)
        /\ IsSome(socks[b].path) /\ IsNone(socks[b].server)
        /\ IsNone(socks[f].path)

\* C19: a UnixAddr made from a valid path, copied into a buffer that holds it
\* all and parsed back over the length copy_to_slice returned, gives an
\* address equal to the one copied, with the same path.
C19_AddrRoundTrip ==
    (ab.pc = "parsed" /\ ab.from = "copied")
    => /\ ab.res.ret = "OK"
       /\ \E sa \in ab.res.val :
              /\ sa.kind = "UnixSocket"
              /\ UnixAddr_eq(sa.addr, Unwrap(ab.addr))
              /\ UnixAddr_path(sa.addr) = ab.path

\* The family tag of the buffer being handled.
RawFamily == ab.buf[1] + 256 * ab.buf[2]

\* C20: try_from_raw gives EINVAL for every length up to 2, whatever the
\* family; for longer lengths PF_UNSPEC gives "no address", PF_LOCAL gives the
\* UnixAddr whose path is the len - 2 bytes after the family tag (EINVAL when
\* they are not UTF-8, ENAMETOOLONG when they are more than 108), and every
\* family other than PF_UNSPEC, PF_LOCAL, PF_INET and PF_INET6 gives EINVAL.
C20_TryFromRawClasses ==
    (ab.pc = "parsed" /\ ab.from = "raw")
    => LET len == ab.len
           res == ab.res
           path == SubSeq(ab.buf, 3, len)
       IN /\ len <= 2 => res = AErr("EINVAL")
          /\ (len > 2 /\ RawFamily = PF_UNSPEC) => res = AOk(None)
          /\ (len > 2 /\ RawFamily = PF_LOCAL) =>
                 /\ ~Utf8Valid(path) => res = AErr("EINVAL")
                 /\ (Utf8Valid(path) /\ len - 2 > MAX_PATH_LEN) => res = AErr("ENAMETOOLONG")
                 /\ (Utf8Valid(path) /\ len - 2 <= MAX_PATH_LEN) =>
                        /\ res.ret = "OK"
                        /\ \E sa \in res.val :
                               /\ sa.kind = "UnixSocket"
                               /\ sa.addr.sun_family = PF_LOCAL
                               /\ UnixAddr_path(sa.addr) = path
          /\ (len > 2 /\ RawFamily \notin {PF_UNSPEC, PF_LOCAL, PF_INET, PF_INET6}) =>
                 res = AErr("EINVAL")

\* A buffer tagged PF_UNSPEC has been parsed over a length of at most 2.
C20_Witness ==
    /\ ab.pc = "parsed" /\ ab.from = "raw"
    /\ ab.len <= 2 /\ Len(ab.buf) >= 2 /\ RawFamily = PF_UNSPEC

\* The addresses a caller passes to bind.
BindAddrs == UnixAddrs(UserPaths) \cup {IPv4Addr}

\* C21: bind on a StreamUnixSocket whose path is set returns EINVAL and leaves
\* the path, the channel's name and the registry (the whole heap) unchanged;
\* bind with an address that is not a Unix address returns EINVAL and leaves
\* the socket as it was, unbound if it was unbound; and over any history the
\* path of a socket, once set, stays what it is until the socket is dropped.
C21_BindOnce ==
    /\ [](\A s \in Sock, addr \in BindAddrs :
            Open(s)
            => LET r == Stream_bind(World, s, addr)
               IN /\ IsSome(socks[s].path) => (r.ret = "EINVAL" /\ r.w = World)
                  /\ addr.kind # "UnixSocket" => (r.ret = "EINVAL" /\ r.w = World))
    /\ [][\A s \in Sock :
            (IsSome(socks[s].path) /\ socks'[s].st # "dropped")
            => socks'[s].path = socks[s].path]_vars

\* A socket bound to one path, connected (its end carries a name) while a
\* listener is registered, is asked to bind to another path.
C21_Witness ==
    \E s \in Sock, p \in UserPaths :
        /\ Open(s) /\ IsSome(socks[s].path) /\ socks[s].path # Some(p)
        /\ IsSome(socks[s].channel)
        /\ IsSome(End(World, Unwrap(socks[s].channel)).name)
        /\ registry # {}
        /\ Stream_bind(World, s, UnixSocketAddr(p)).ret = "EINVAL"

\* Backlog values of every sign and size (an i32).
AnyBacklogs == {-1, 0, 1, 2147483647}

\* C22: listen on a socket without a path returns EINVAL; listen on a socket
\* that holds a server returns success and changes nothing (registry, socket
\* and pending queue are as before), whatever the backlog.
C22_ListenIdempotent ==
    \A s \in Sock, backlog \in AnyBacklogs :
        Open(s)
        => LET r == Stream_listen(World, s, backlog)
           IN /\ IsNone(socks[s].path) => (r.ret = "EINVAL" /\ r.w = World)
              /\ IsSome(socks[s].server) => (r.ret = "OK" /\ r.w = World)

\* A listener with a connection pending is asked to listen again.
C22_Witness ==
    \E s \in Sock :
        /\ Open(s) /\ Listener(s)
        /\ servers[s].pending_connections # <<>>
        /\ Stream_listen(World, s, 0).ret = "OK"

\* C23: accept on a socket that is unbound, or bound without holding a server
\* (it never listened with success), returns EINVAL and takes no connection
\* off any pending queue, also while another socket listens on the same path.
C23_AcceptNeedsOwnServer ==
    \A s \in Sock, flags \in FileFlagSets, addr \in AddrBufs :
        (Open(s) /\ IsNone(socks[s].server))
        => LET r == Stream_accept(World, s, flags, addr)
           IN /\ r.ret = "EINVAL"
              /\ \A k \in Sock : r.w.servers[k].pending_connections
                                    = servers[k].pending_connections

\* The bytes the peer of end e has written and e has not read yet.
Unread(W, e) == Len(End(W, Peer(e)).sent) - Len(End(W, e).rcvd)

\* C24: on a socket without a channel (fresh, bound, listening or dissolved by
\* a null connect) read, write, readv, writev and ioctl(FIONREAD) return
\* ENOTCONN and change nothing; on a socket with a channel FIONREAD succeeds,
\* changes nothing and reports the number of bytes its peer has written and
\* the socket has not read yet.
C24_NotConnectedAndFionread ==
    \A s \in Sock :
        Open(s)
        => LET r == Stream_ioctl(World, s)
           IN IF IsNone(socks[s].channel)
              THEN /\ NotConnected(World, s)
                   /\ r.ret = "ENOTCONN" /\ r.w = World
              ELSE /\ r.ret = "OK" /\ r.w = World
                   /\ r.val = Unread(World, Unwrap(socks[s].channel))

\* A listening socket without a channel next to a connected socket whose peer
\* has written three bytes of which it has read one.
C24_Witness ==
    \E l \in Sock, s \in Sock :
        /\ Open(l) /\ Listener(l) /\ IsNone(socks[l].channel)
        /\ Stream_ioctl(World, l).ret = "ENOTCONN"
        /\ Open(s) /\ IsSome(socks[s].channel)
        /\ Len(End(World, Peer(Unwrap(socks[s].channel))).sent) = 3
        /\ Len(End(World, Unwrap(socks[s].channel)).rcvd) = 1
        /\ Stream_ioctl(World, s).val = 2

\* C25: dropping a socket always succeeds, whatever its state and whatever the
\* host returns from the close OCall: the drop of a UnixSocket, which drops
\* the StreamUnixSocket and the SocketFile it holds, never aborts.
C25_DropSucceeds ==
    \A r \in Router, h \in HostRets :
        ROpen(r) => Router_drop(World, r, h).ret = "OK"

\* Socket a was accepted from the server of listener l and is connected to the
\* socket x, a third socket that a thread holds.
AcceptedPair(l, a, x) ==
    /\ a # l /\ x # l /\ a # x
    /\ Open(a) /\ QueuedAt(a, l) /\ Held(x)
    /\ IsSome(socks[a].channel)
    /\ socks[x].channel = Some(Peer(Unwrap(socks[a].channel)))

\* In world W a write of data on socket from does what it does now, and what
\* it puts into the ring the socket to reads next.
Exchanges(W, from, to) ==
    \A data \in IoBufs(MaxByte, MaxIoLen) :
        LET now == Stream_write(World, from, data)
            w == Stream_write(W, from, data)
        IN /\ w.ret = now.ret /\ w.val = now.val /\ w.ret # "EPIPE"
           /\ (w.ret = "OK" /\ EndPoint_bytes_to_read(W, Unwrap(W.socks[to].channel)) = 0)
              => LET r == Stream_read(w.w, to, Len(data))
                 IN r.ret = "OK" /\ r.val = w.val

\* C26: the drop of a listener removes the registry entry of its path, also
\* while connections are pending, so that a connect to the path then returns
\* ECONNREFUSED; and a connection accepted from the listener before is left as
\* it was: the accepted socket, its client and their channel are unchanged,
\* neither end sees peer closed and bytes still pass in both directions.
C26_ListenerDrop ==
    \A l \in Sock :
        (Open(l) /\ Listener(l))
        => LET path == Unwrap(socks[l].path)
               W == Stream_drop(World, l)
           IN /\ ~contains_key(W.registry, path)
              /\ \A s \in Sock \ {l} :
                    Open(s) => Stream_connect(W, s, Some(UnixSocketAddr(path))).ret
                                    = "ECONNREFUSED"
              /\ \A a \in Sock, x \in Sock :
                    AcceptedPair(l, a, x)
                    => LET e == Unwrap(socks[a].channel)
                       IN /\ W.socks[a] = socks[a] /\ W.socks[x] = socks[x]
                          /\ W.eps[e[1]] = eps[e[1]] /\ W.rings[e[1]] = rings[e[1]]
                          /\ ~reader_is_peer_closed(ReaderRing(W, e))
                          /\ ~writer_is_peer_closed(WriterRing(W, e))
                          /\ ~reader_is_peer_closed(ReaderRing(W, Peer(e)))
                          /\ ~writer_is_peer_closed(WriterRing(W, Peer(e)))
                          /\ Exchanges(W, a, x) /\ Exchanges(W, x, a)

\* A listener with a connection pending and another accepted, whose client
\* has a byte in flight to the accepted socket.
C26_Witness ==
    \E l \in Sock, a \in Sock, x \in Sock :
        /\ Open(l) /\ Listener(l) /\ Open(x)
        /\ servers[l].pending_connections # <<>>
        /\ AcceptedPair(l, a, x)
        /\ EndPoint_bytes_to_read(World, Unwrap(socks[a].channel)) = 1
        /\ EndPoint_bytes_to_read(World, Unwrap(socks[x].channel)) = 0
        /\ Stream_write(Stream_drop(World, l), a, <<1>>).ret = "OK"

\* C27: a StreamUnixSocket that has a channel has no server: the sockets
\* connect constructs for the server side, pending or accepted, hold no server
\* reference, and a listener holds no channel.
C27_ConnectedWithoutServer ==
    \A s \in Sock :
        (socks[s].st \in {"open", "pending", "local"} /\ IsSome(socks[s].channel))
        => IsNone(socks[s].server)

InOrder(t) ==
    \A i \in 1..Len(th[t].held), j \in 1..Len(th[t].held) :
        (i < j /\ Rank(th[t].held[i].l) > 0 /\ Rank(th[t].held[j].l) > 0)
        => \/ Rank(th[t].held[i].l) < Rank(th[t].held[j].l)
           \/ th[t].held[i].l[1] = "reader" /\ th[t].held[j].l[1] = "writer"

\* A set of threads each of which waits for a lock another one of them holds.
LockCycle(T) == T # {} /\ \A t \in T : \E u \in T : WaitsFor(t, u)

\* C29: no verb takes a lock of the order ServerRegistry, ListeningServer
\* fifo, StreamUnixSocket.channel, EndPoint reader/writer while it holds one
\* further right, and no set of threads running the verbs waits in a cycle.
C29_LockOrder ==
    /\ \A t \in Threads : InOrder(t)
    /\ \A T \in SUBSET Threads : ~LockCycle(T)

\* One thread is in EndPoint::poll with the channel, the reader and the writer
\* locked while another, holding nothing, waits for that channel.
C29_Witness ==
    \E t \in Threads, u \in Threads :
        /\ Len(th[t].held) = 3
        /\ th[t].held[1].l[1] = "channel" /\ th[t].held[3].l[1] = "writer"
        /\ WaitsFor(u, t) /\ NextStep(u).l = th[t].held[1].l

\* C30: socketpair retries on a collision: also when a server is registered
\* under the path socketpair_<n> of the next counter value n (a user socket
\* listens on it), the call does not fail with EADDRINUSE; it goes on to a
\* later n, terminates and returns the two ends of one channel.
C30_SocketpairRetries ==
    \A flags \in FileFlagSets :
        FreeSlots(World) >= 3
        => LET r == Stream_socketpair(World, flags)
           IN /\ r.ret = "OK"
              /\ IsSome(r.w.socks[r.val[1]].channel)
              /\ r.w.socks[r.val[2]].channel
                    = Some(Peer(Unwrap(r.w.socks[r.val[1]].channel)))

\* The in-enclave socket of UnixSocket r was called with connect(addr), and
\* what it gave is the result x.
LibosConnected(x, r, addr) ==
    /\ IsSome(routers[r].libos_sock)
    /\ LET y == Stream_connect(World, Unwrap(routers[r].libos_sock), addr)
       IN x.w = y.w /\ x.ret = y.ret
\* The host socket of UnixSocket r was called by the verb whose result is x.
HostConnected(x) == x.ocalls = <<"connect">>

\* C31: connect with the null address is applied to the in-enclave socket iff
\* it exists and to the host socket iff the host path list is non-empty;
\* connect with an address calls exactly one underlying socket, the host one
\* iff the address is a host path, whatever the tag; connect never changes the
\* tag.
C31_ConnectRouting ==
    \A r \in Router, h \in HostRets :
        (ROpen(r) /\ HasFresh(World))
        => /\ LET x == Router_connect(World, r, None, h)
              IN /\ IsSome(routers[r].libos_sock) => LibosConnected(x, r, None)
                 /\ IsNone(routers[r].libos_sock) => OffLibos(x, r)
                 /\ HostConnected(x) <=> HOST_UNIX_ADDRS # {}
                 /\ x.w.routers[r].source = routers[r].source
           /\ \A addr \in UnixAddrs(RouterPaths) :
                  LET x == Router_connect(World, r, Some(addr), h)
                  IN /\ is_from_host(World, addr)
                          => HostConnected(x) /\ x.w = World
                     /\ ~is_from_host(World, addr)
                          => ~HostConnected(x) /\ LibosConnected(x, r, Some(addr))
                     /\ x.w.routers[r].source = routers[r].source

\* What the caller of a verb gets: the errno, the value and the OCalls made.
Answer(x) == [ret |-> x.ret, val |-> x.val, ocalls |-> x.ocalls]
\* The world in which UnixSocket r holds its host socket only.
WithHostOnly(r) == [World EXCEPT !.routers[r].libos_sock = None]

\* C32: on a UnixSocket with tag Unknown and a non-empty host path list, what
\* ioctl, get_status_flags, set_status_flags and poll return is what the host
\* socket returns: a failure of the in-enclave call neither prevents the host
\* call nor becomes the verb's result.
C32_HostIsAuthoritative ==
    \A r \in Router, h \in HostRets :
        (ROpen(r) /\ routers[r].source = "Unknown" /\ HOST_UNIX_ADDRS # {})
        => /\ Answer(Router_ioctl(World, r, h)) = Answer(Router_ioctl(WithHostOnly(r), r, h))
           /\ Answer(Router_get_status_flags(World, r, h))
                = Answer(Router_get_status_flags(WithHostOnly(r), r, h))
           /\ \A f \in {{}, {O_NONBLOCK}} :
                  Answer(Router_set_status_flags(World, r, f, h))
                    = Answer(Router_set_status_flags(WithHostOnly(r), r, f, h))
           /\ Answer(Router_poll(World, r)) = Answer(Router_poll(WithHostOnly(r), r))

\* The length accept and recvfrom report for the peer name of socket s's own
\* channel: that of the peer's address, or 0 without a channel, with the peer
\* gone, or with a peer that has no name.
OwnPeerNameLen(W, s) ==
    LET ch == W.socks[s].channel
    IN IF IsSome(ch) /\ End(W, Peer(Unwrap(ch))).live
                     /\ IsSome(End(W, Peer(Unwrap(ch))).name)
       THEN UnixAddr_len(Unwrap(End(W, Peer(Unwrap(ch))).name))
       ELSE 0

\* C33: an accept with an address buffer reports the peer name of the
\* listener's own channel: length 0 (the buffer is then not written, since
\* copy_to_slice is the only writer and returns the length of an address) on
\* a listener without a channel, whatever the name of the connecting client;
\* a recvfrom with an address buffer reports the length of the peer name of
\* the socket's current channel, or 0 when the peer is unnamed or gone.
C33_AddrFromOwnChannel ==
    \A s \in Sock :
        Open(s)
        => /\ \A flags \in FileFlagSets :
                  LET x == Stream_accept(World, s, flags, Some(16))
                  IN x.ret = "OK"
                     => /\ x.val.addr_len = OwnPeerNameLen(World, s)
                        /\ IsNone(socks[s].channel) => x.val.addr_len = 0
           /\ \A n \in 1..MaxIoLen :
                  LET x == Stream_recvfrom(World, s, n, Some(16))
                  IN x.ret = "OK" => x.val.addr_len = OwnPeerNameLen(x.w, s)
\* A listener without a channel accepts the connection of a bound client.
C33_Witness ==
    \E s \in Sock, c \in Sock :
        /\ Open(s) /\ Open(c) /\ IsNone(socks[s].channel)
        /\ IsSome(socks[c].path) /\ IsSome(socks[c].channel)
        /\ LET x == Stream_accept(World, s, {}, Some(16))
           IN /\ x.ret = "OK"
              /\ x.w.socks[x.val.sock].channel = Some(Peer(Unwrap(socks[c].channel)))

\* The configurations of host paths: a path, the same path with a NUL after
\* it, another path and the empty path.
HostPathConfigs == SUBSET {<<97>>, <<97, 0>>, <<195, 169>>, <<>>}
\* A path without the NUL bytes at its end.
RECURSIVE StripNuls(_)
StripNuls(path) ==
    IF path # <<>> /\ path[Len(path)] = 0
    THEN StripNuls(SubSeq(path, 1, Len(path) - 1))
    ELSE path
\* The paths that differ from path only by NUL bytes at the end.
NulVariants(path) ==
    {q \in {StripNuls(path) \o Zeros(k) : k \in 0..(Len(path) + 1)} :
        Len(q) <= MAX_PATH_LEN}
\* The UnixAddr being handled: the one made by UnixAddr::new, or parsed from a
\* buffer.
CurrentUnixAddrs ==
    IF ab.pc \in {"new", "copied"} THEN ab.addr
    ELSE IF ab.pc = "parsed" /\ ab.res.ret = "OK"
    THEN {sa.addr : sa \in {x \in ab.res.val : x.kind = "UnixSocket"}}
    ELSE {}

Quiet(s) == \A t \in Threads : ~StInside(t, s)
\* The two halves of end e are in non-blocking mode / in blocking mode.
EndNonBlocking(W, e) == ReaderRing(W, e).reader_nb /\ WriterRing(W, e).writer_nb
EndBlocking(W, e) == ~ReaderRing(W, e).reader_nb /\ ~WriterRing(W, e).writer_nb

\* C35: whenever no verb is running on a socket, its channel (if any) is in
\* non-blocking mode iff its is_blocking flag is false, also after a connect
\* and a set_status_flags on the socket have interleaved; and what
\* get_status_flags returns changes only with a set_status_flags on the
\* socket, to O_NONBLOCK iff that call asked for it.
C35_ModeMatchesFlag ==
    /\ [](\A s \in Sock :
            (Open(s) /\ Quiet(s))
            => \A e \in socks[s].channel :
                   IF Stream_is_blocking(World, s)
                   THEN EndBlocking(World, e)
                   ELSE EndNonBlocking(World, e))
    /\ [][\A s \in Sock :
             (Open(s) /\ socks'[s].st = "open"
                      /\ Stream_get_status_flags(World', s) # Stream_get_status_flags(World, s))
             => \E t \in Threads :
                    /\ sp[t].pc = "idle" /\ sp'[t].pc = "set_mode" /\ sp'[t].s = s
                    /\ (O_NONBLOCK \in Stream_get_status_flags(World', s)) = sp'[t].nb]_vars

\* C39: bind and listen on one socket behave as if the calls that overlap
\* had run one after the other: a bind that goes on to set the path (and to
\* return Ok) finds the socket still unbound, so only one of several binds
\* succeeds, and a listen does not get EADDRINUSE from the registry entry of
\* the socket's own server.
C39_BindListenLinearizable ==
    [][\A t \in Threads :
          /\ (sp[t].pc = "bind_write" /\ sp'[t].pc = "bind_name")
                => IsNone(socks[sp[t].s].path)
          /\ (sp[t].pc = "listen_create" /\ sp'[t].pc = "done"
                                          /\ sp'[t].ret = "EADDRINUSE")
                => <<sp[t].path, sp[t].s>> \notin registry]_vars

\* Thread t is inside a read.
Reading(t) == \E i \in 1..Len(th[t].script) : th[t].script[i].a = "read"
\* Thread t waits for a lock taken, or inside the ring buffer.
Stuck(t) ==
    Running(t) /\ (Suspended(t) \/ (NextStep(t).a = "acq" /\ Taken(t, NextStep(t))))

\* C36: the two directions of a connected socket are independent: while a
\* thread is suspended in a blocking read of a socket without bytes, no
\* write, poll, ioctl or set_status_flags of another thread on that socket
\* waits for a lock the reader holds; and the threads never all wait with one
\* of them waiting for a lock of the socket.
C36_DirectionsIndependent ==
    /\ \A t \in Threads, u \in Threads :
           (Suspended(t) /\ NextStep(t).a = "read" /\ ~Reading(u)) => ~WaitsFor(u, t)
    /\ ~(/\ \A t \in Threads : Stuck(t)
         /\ \E t \in Threads, u \in Threads : WaitsFor(t, u))

\* C37: an accept of a UnixSocket that returns an error loses no pending
\* connection: the pending queues, the registry and the sockets queued are
\* as before the call, whatever made it fail; and a connection leaves a
\* pending queue only from its front, into the UnixSocket the accept returns.
C37_FailedAcceptKeepsPending ==
    \A r \in Router, flags \in FileFlagSets, addr \in AddrBufs, h \in HostRets :
        (ROpen(r) /\ HasFreshRouter(World) /\ HasFresh(World))
        => LET x == Router_accept(World, r, flags, addr, h)
           IN /\ x.ret # "OK"
                   => /\ x.w.servers = servers
                      /\ x.w.registry = registry
                      /\ \A s \in Sock : socks[s].st = "pending" => x.w.socks[s] = socks[s]
              /\ \A k \in Sock :
                     x.w.servers[k] # servers[k]
                     => /\ x.ret = "OK"
                        /\ servers[k].pending_connections # <<>>
                        /\ x.w.servers[k].pending_connections
                             = Tail(servers[k].pending_connections)
                        /\ x.w.routers[x.val.sock].libos_sock
                             = Some(Head(servers[k].pending_connections))

\* The listener of server k: a socket a caller holds whose listen allocated k.
HasListener(k) ==
    \E l \in Sock : Held(l) /\ socks[l].server = Some(k) /\ IsNone(socks[l].queued_at)
\* The socket a sits in the pending queue of a server whose listener is gone.
Orphaned(a) ==
    /\ socks[a].st = "pending"
    /\ \E k \in socks[a].queued_at :
           /\ \E i \in 1..Len(servers[k].pending_connections) :
                  servers[k].pending_connections[i] = a
           /\ ~HasListener(k)

\* Somebody can still use socket a: a caller holds it, or an accept of a
\* listener that is alive can return it.
Reachable(a) == Held(a) \/ (socks[a].st = "pending" /\ ~Orphaned(a))

\* C38: no connection is orphaned: once the listener of a server is dropped,
\* the sockets still in the server's pending queue are released with it, and
\* a client whose peer end nobody can reach any more finds its peer closed.
C38_NoOrphan ==
    /\ \A a \in Sock : ~Orphaned(a)
    /\ \A c \in Sock :
           Open(c)
           => \A e \in socks[c].channel :
                  (~\E a \in Sock : Reachable(a) /\ socks[a].channel = Some(Peer(e)))
                  => SeesPeerClosed(World, e)

====
